---- MODULE Spec2Model ----
(***************************************************************************)
(* A model of the HTM Region (Cortical Learning Algorithm) of the          *)
(* HTM-Camera-Toolkit, data-oriented variant (src/src/HTM/c_ansi), in its  *)
(* hardcoded-spatial-pooler construction.  Synapse, Segment, Cell,         *)
(* SegmentUpdateInfo, Column and Region are translated operation by        *)
(* operation; runOnce is split at the loop iterations of its phases.       *)
(***************************************************************************)
EXTENDS Integers, Sequences, FiniteSets, TLC

(***************************************************************************)
(* Program constants.                                                      *)
(***************************************************************************)
MAX_PERM == 10000
CONNECTED_PERM == 2000
INITIAL_PERMANENCE == 3000
PERMANENCE_INC == 150
PERMANENCE_DEC == 100
MAX_TIME_STEPS == 10
MIN_SYNAPSES_PER_SEGMENT_THRESHOLD == 1
INT_MAX == 2147483647
INT_MIN == (-INT_MAX) - 1

(***************************************************************************)
(* Bounds of the model.                                                    *)
(***************************************************************************)
MaxSteps == 3        \* runOnce calls in one behaviour of the general region
MaxActive == 2       \* active bits in one input vector
MaxStepsTest1 == 3   \* runOnce calls in one behaviour of the testRegion1 regions
MaxCalls == 3        \* calls in one behaviour of the synapse harness
MaxSegSyns == 2      \* synapses of the free-standing segment
MaxSegCalls == 4     \* calls in one behaviour of the segment harness
MaxApplyCalls == 2   \* applySegmentUpdates calls in one behaviour of its harness

VARIABLES
  region,      \* the Region's hyperparameters (fixed at construction)
  colActive,   \* colActive[i] = region->columns[i].isActive
  columns,     \* columns[i] = overlap, boost and duty cycles of region->columns[i]
  cells,       \* cells[i][c] = region->columns[i].cells[c]
  inputData,   \* the caller-owned input bit vector
  pc,          \* position inside runOnce
  idx,         \* loop index i of the phase being executed
  history,     \* the input vectors fed so far, one per runOnce call
  feed,        \* the caller: the input vectors it feeds and how many steps
  syn,         \* a free-standing synapse (as in testSynapse)
  seg,         \* a free-standing segment (as in testSegment)
  calls,       \* number of calls made on the free-standing synapse/segment
  pending,     \* parallel pooling: the tasks of the current phase not yet run
  sequential,  \* parallel pooling: cells as the sequential loop leaves the phase
  sample,      \* the last randomSample call: its pool, m and the array returned
  lookup       \* the last lookup of a column by grid position and what it addressed

\* No randomSample call has been made on its own.
NoSample == [cells |-> << >>, m |-> 0, ss |-> << >>]

\* No column has been looked up by position.
NoLookup == [site |-> "none", x |-> 0, y |-> 0, index |-> 0, at |-> <<0, 0>>]

vars == <<region, colActive, columns, cells, inputData, pc, idx, history, feed, syn, seg, calls, pending, sequential, sample, lookup>>
regionVars == <<region, colActive, columns, cells, inputData, pc, idx, history, feed, pending, sequential>>

Min(a, b) == IF a < b THEN a ELSE b
Max(a, b) == IF a > b THEN a ELSE b
Range(s) == {s[k] : k \in 1..Len(s)}

(***************************************************************************)
(* 32-bit signed int arithmetic of the build (two's complement wrap on     *)
(* overflow), written so that no intermediate value leaves the int range.  *)
(***************************************************************************)
Add32(a, b) ==
  IF a > 0 /\ b > 0 /\ b > INT_MAX - a
    THEN ((a - (INT_MAX - b)) - 1) + INT_MIN
  ELSE IF a < 0 /\ b < 0 /\ b < INT_MIN - a
    THEN ((a - (INT_MIN - b)) + 1) + INT_MAX
  ELSE a + b

Sub32(a, b) ==
  IF a < 0 /\ b > 0 /\ b > a - INT_MIN
    THEN (((a - INT_MIN) - b) + INT_MAX) + 1
  ELSE IF a >= 0 /\ b < 0 /\ b < a - INT_MAX
    THEN (((a - INT_MAX) - b) + INT_MIN) - 1
  ELSE a - b

(***************************************************************************)
(* Synapse                                                                 *)
(***************************************************************************)
initSynapse(inputSource, permanence) ==
  [inputSource |-> inputSource, permanence |-> permanence,
   isConnected |-> FALSE, wasConnected |-> FALSE]

\* cs is the cell store: cs[ref[1]][ref[2]] is the cell a synapse points to
SrcCell(cs, ref) == cs[ref[1]][ref[2]]

\* isSynapseActive that reads the source cell's isPredicting.
isSynapseActive_predicting(cs, s, connectedOnly) ==
  SrcCell(cs, s.inputSource).isPredicting /\ (s.isConnected \/ ~connectedOnly)

isSynapseActive(cs, s, connectedOnly) ==
  SrcCell(cs, s.inputSource).isActive /\ (s.isConnected \/ ~connectedOnly)

\* wasSynapseActive that reads the isConnected flag of the current step.
wasSynapseActive_currentConnected(cs, s, connectedOnly) ==
  SrcCell(cs, s.inputSource).wasActive /\ (s.isConnected \/ ~connectedOnly)

wasSynapseActive(cs, s, connectedOnly) ==
  SrcCell(cs, s.inputSource).wasActive /\ (s.wasConnected \/ ~connectedOnly)

\* wasSynapseActiveFromLearning that does not ask whether the source cell
\* was learning.
wasSynapseActiveFromLearning_anyActive(cs, s) ==
  wasSynapseActive(cs, s, TRUE)

wasSynapseActiveFromLearning(cs, s) ==
  wasSynapseActive(cs, s, TRUE) /\ SrcCell(cs, s.inputSource).wasLearning

increaseSynapsePermanence(s, amount) ==
  LET amt == IF amount = 0 THEN PERMANENCE_INC ELSE amount
  IN  [s EXCEPT !.permanence = Min(MAX_PERM, Add32(s.permanence, amt))]

decreaseSynapsePermanence(s, amount) ==
  LET amt == IF amount = 0 THEN PERMANENCE_DEC ELSE amount
  IN  [s EXCEPT !.permanence = Max(0, Sub32(s.permanence, amt))]

(***************************************************************************)
(* Segment                                                                 *)
(***************************************************************************)
initSegment(segActiveThreshold) ==
  [synapses |-> << >>, isSequence |-> FALSE, predictionSteps |-> 0,
   segActiveThreshold |-> segActiveThreshold,
   isActive |-> FALSE, wasActive |-> FALSE,
   numActiveConnectedSyns |-> 0, numPrevActiveConnectedSyns |-> 0,
   numActiveAllSyns |-> 0, numPrevActiveAllSyns |-> 0]

\* nextSegmentTimeStep forgetting the activity of the step that ends.
nextSegmentTimeStep_dropsWasActive(s) ==
  [s EXCEPT !.wasActive = FALSE,
            !.isActive = FALSE,
            !.numPrevActiveAllSyns = s.numActiveAllSyns,
            !.numPrevActiveConnectedSyns = s.numActiveConnectedSyns,
            !.synapses = [k \in 1..Len(s.synapses) |->
                            [s.synapses[k] EXCEPT
                               !.wasConnected = s.synapses[k].isConnected,
                               !.isConnected = FALSE]]]

nextSegmentTimeStep(s) ==
  [s EXCEPT !.wasActive = s.isActive,
            !.isActive = FALSE,
            !.numPrevActiveAllSyns = s.numActiveAllSyns,
            !.numPrevActiveConnectedSyns = s.numActiveConnectedSyns,
            !.synapses = [k \in 1..Len(s.synapses) |->
                            [s.synapses[k] EXCEPT
                               !.wasConnected = s.synapses[k].isConnected,
                               !.isConnected = FALSE]]]

\* processSegment that counts with the isConnected flags as they are,
\* without recomputing them from the permanences.
processSegment_staleConnected(cs, s) ==
  LET nc == Cardinality({k \in 1..Len(s.synapses) :
                SrcCell(cs, s.synapses[k].inputSource).isActive /\ s.synapses[k].isConnected})
      na == Cardinality({k \in 1..Len(s.synapses) :
                SrcCell(cs, s.synapses[k].inputSource).isActive})
  IN  [s EXCEPT !.numActiveConnectedSyns = nc,
                !.numActiveAllSyns = na,
                !.isActive = (nc >= s.segActiveThreshold)]

processSegment(cs, s) ==
  LET syns == [k \in 1..Len(s.synapses) |->
                 [s.synapses[k] EXCEPT
                    !.isConnected = (s.synapses[k].permanence >= CONNECTED_PERM)]]
      nc == Cardinality({k \in 1..Len(syns) :
                SrcCell(cs, syns[k].inputSource).isActive /\ syns[k].isConnected})
      na == Cardinality({k \in 1..Len(syns) :
                SrcCell(cs, syns[k].inputSource).isActive})
  IN  [s EXCEPT !.synapses = syns,
                !.numActiveConnectedSyns = nc,
                !.numActiveAllSyns = na,
                !.isActive = (nc >= s.segActiveThreshold)]

\* setNumPredictionSteps without the clamp to 1..MAX_TIME_STEPS.
setNumPredictionSteps_unclamped(s, nsteps) ==
  [s EXCEPT !.predictionSteps = nsteps, !.isSequence = (nsteps = 1)]

setNumPredictionSteps(s, nsteps) ==
  LET st == IF nsteps < 1 THEN 1
            ELSE IF nsteps > MAX_TIME_STEPS THEN MAX_TIME_STEPS ELSE nsteps
  IN  [s EXCEPT !.predictionSteps = st, !.isSequence = (st = 1)]

\* createSynapse that puts the new synapse in front of the others.
createSynapse_inFront(s, inputSource, initPerm) ==
  [s EXCEPT !.synapses = <<initSynapse(inputSource, initPerm)>> \o s.synapses]

createSynapse(s, inputSource, initPerm) ==
  [s EXCEPT !.synapses = Append(s.synapses, initSynapse(inputSource, initPerm))]

updateSegmentPermanences(s, increase) ==
  [s EXCEPT !.synapses = [k \in 1..Len(s.synapses) |->
      IF increase THEN increaseSynapsePermanence(s.synapses[k], 0)
                  ELSE decreaseSynapsePermanence(s.synapses[k], 0)]]

\* wasSegmentActiveFromLearning that reads the source cells' isLearning of
\* the current step.
wasSegmentActiveFromLearning_current(cs, s) ==
  Cardinality({k \in 1..Len(s.synapses) :
                 /\ s.synapses[k].wasConnected
                 /\ cs[s.synapses[k].inputSource[1]][s.synapses[k].inputSource[2]].isLearning})
    >= s.segActiveThreshold

wasSegmentActiveFromLearning(cs, s) ==
  Cardinality({k \in 1..Len(s.synapses) :
                 wasSynapseActiveFromLearning(cs, s.synapses[k])})
    >= s.segActiveThreshold

(***************************************************************************)
(* Cell                                                                    *)
(***************************************************************************)
initCell ==
  [isActive |-> FALSE, wasActive |-> FALSE,
   isPredicting |-> FALSE, wasPredicted |-> FALSE,
   isLearning |-> FALSE, wasLearning |-> FALSE,
   predictionSteps |-> 0, segments |-> << >>, segmentUpdates |-> << >>]

\* setCellPredicting whose loop overwrites the cache with the steps of
\* every active segment, so that the last active one wins.
setCellPredicting_lastSegment(cell, predicting) ==
  IF predicting
    THEN LET act == {j \in 1..Len(cell.segments) : cell.segments[j].isActive}
             last == IF act = {} THEN MAX_TIME_STEPS
                     ELSE cell.segments[CHOOSE m \in act : \A o \in act : m >= o]
                            .predictionSteps
         IN  [cell EXCEPT !.isPredicting = TRUE, !.predictionSteps = last]
    ELSE [cell EXCEPT !.isPredicting = FALSE]

setCellPredicting(cell, predicting) ==
  IF predicting
    THEN LET act == {cell.segments[k].predictionSteps : k \in
                       {j \in 1..Len(cell.segments) :
                          /\ cell.segments[j].isActive
                          /\ cell.segments[j].predictionSteps < MAX_TIME_STEPS}}
             least == IF act = {} THEN MAX_TIME_STEPS
                      ELSE CHOOSE m \in act : \A o \in act : m <= o
         IN  [cell EXCEPT !.isPredicting = TRUE, !.predictionSteps = least]
    ELSE [cell EXCEPT !.isPredicting = FALSE]

\* nextCellTimeStep that does not carry the learning flag over.
nextCellTimeStep_dropsWasLearning(cell) ==
  [cell EXCEPT !.wasActive = cell.isActive,
               !.wasPredicted = cell.isPredicting,
               !.wasLearning = FALSE,
               !.isActive = FALSE,
               !.isPredicting = FALSE,
               !.isLearning = FALSE,
               !.segments = [k \in 1..Len(cell.segments) |->
                               nextSegmentTimeStep(cell.segments[k])]]

nextCellTimeStep(cell) ==
  [cell EXCEPT !.wasActive = cell.isActive,
               !.wasPredicted = cell.isPredicting,
               !.wasLearning = cell.isLearning,
               !.isActive = FALSE,
               !.isPredicting = FALSE,
               !.isLearning = FALSE,
               !.segments = [k \in 1..Len(cell.segments) |->
                               nextSegmentTimeStep(cell.segments[k])]]

\* createCellSegment that puts the new segment in front of the others.
createCellSegment_inFront(cell, segActiveThreshold) ==
  [cell EXCEPT !.segments = <<initSegment(segActiveThreshold)>> \o cell.segments]

createCellSegment(cell, segActiveThreshold) ==
  [cell EXCEPT !.segments = Append(cell.segments, initSegment(segActiveThreshold))]

\* The loop of getPreviousActiveSegment from segment k on; best is the
\* 0-based index of bestSegment, -1 for NULL.
RECURSIVE PreviousActiveLoop(_, _, _, _, _)
PreviousActiveLoop(segs, k, foundSequence, mostSyns, best) ==
  IF k > Len(segs) THEN best
  ELSE LET sg == segs[k]
           activeSyns == sg.numPrevActiveConnectedSyns
       IN  IF activeSyns > sg.segActiveThreshold
             THEN IF sg.isSequence
                    THEN IF activeSyns > mostSyns
                           THEN PreviousActiveLoop(segs, k+1, TRUE, activeSyns, k-1)
                           ELSE PreviousActiveLoop(segs, k+1, TRUE, mostSyns, best)
                  ELSE IF ~foundSequence /\ activeSyns > mostSyns
                    THEN PreviousActiveLoop(segs, k+1, foundSequence, activeSyns, k-1)
                  ELSE PreviousActiveLoop(segs, k+1, foundSequence, mostSyns, best)
             ELSE PreviousActiveLoop(segs, k+1, foundSequence, mostSyns, best)

getPreviousActiveSegment(cell) ==
  PreviousActiveLoop(cell.segments, 1, FALSE, 0, -1)

\* The loop of getBestMatchingSegment; result is *segmentID (-1 for NULL).
RECURSIVE BestMatchingLoop(_, _, _, _, _, _)
BestMatchingLoop(segs, k, numPredictionSteps, previous, bestSynapseCount, best) ==
  IF k > Len(segs) THEN best
  ELSE LET sg == segs[k]
           synCount == IF previous THEN sg.numPrevActiveAllSyns
                                   ELSE sg.numActiveAllSyns
       IN  IF sg.predictionSteps = numPredictionSteps /\ synCount > bestSynapseCount
             THEN BestMatchingLoop(segs, k+1, numPredictionSteps, previous, synCount, k-1)
             ELSE BestMatchingLoop(segs, k+1, numPredictionSteps, previous,
                                   bestSynapseCount, best)

\* getBestMatchingSegment reading the current counts whatever previous is.
getBestMatchingSegment_currentOnly(cell, numPredictionSteps, previous) ==
  BestMatchingLoop(cell.segments, 1, numPredictionSteps, FALSE,
                   MIN_SYNAPSES_PER_SEGMENT_THRESHOLD, -1)

getBestMatchingSegment(cell, numPredictionSteps, previous) ==
  BestMatchingLoop(cell.segments, 1, numPredictionSteps, previous,
                   MIN_SYNAPSES_PER_SEGMENT_THRESHOLD, -1)

getBestMatchingPreviousSegment(cell) ==
  getBestMatchingSegment(cell, cell.predictionSteps + 1, TRUE)

(***************************************************************************)
(* SegmentUpdateInfo                                                       *)
(***************************************************************************)
NumCols(r) == r.width * r.height

\* The outcomes of randomSample(cells, n, m) over all values of rand():
\* iteration i draws pos in 0..i.
\* randomSample that takes the drawn cell also when the subset holds it
\* already.
RECURSIVE RandomSampleFrom_noContains(_, _, _)
RandomSampleFrom_noContains(pool, i, ss) ==
  IF i >= Len(pool) THEN {ss}
  ELSE UNION { RandomSampleFrom_noContains(pool, i+1, Append(ss, pool[pos+1]))
               : pos \in 0..i }

RECURSIVE RandomSampleFrom(_, _, _)
RandomSampleFrom(pool, i, ss) ==
  IF i >= Len(pool) THEN {ss}
  ELSE UNION { RandomSampleFrom(pool, i+1,
                  Append(ss, IF pool[pos+1] \in Range(ss) THEN pool[i+1]
                                                        ELSE pool[pos+1]))
               : pos \in 0..i }

randomSample(pool, m) == RandomSampleFrom(pool, Len(pool) - m, << >>)

\* Indices (0-based, ascending) of the synapses that pass the active test
\* of the snapshot loops of initSegmentUpdateInfo.
RECURSIVE ActiveSynapseIDsFrom(_, _, _, _)
ActiveSynapseIDsFrom(cs, syns, previous, k) ==
  IF k > Len(syns) THEN << >>
  ELSE LET rest == ActiveSynapseIDsFrom(cs, syns, previous, k+1)
           hit == IF previous THEN wasSynapseActive(cs, syns[k], TRUE)
                              ELSE isSynapseActive(cs, syns[k], TRUE)
       IN  IF hit THEN <<k-1>> \o rest ELSE rest

\* The columns in the order of the x-outer / y-inner scan.
ScanOrder(r) ==
  [k \in 1..NumCols(r) |-> (((k-1) % r.height) * r.width) + ((k-1) \div r.height)]

\* The cells in the order the candidate scan visits them.
ScanCells(r) ==
  [k \in 1..(NumCols(r) * r.cellsPerCol) |->
     <<ScanOrder(r)[((k-1) \div r.cellsPerCol) + 1], (k-1) % r.cellsPerCol>>]

\* The candidate scan takes cells of every column.
OtherColumn_any(ref, cellRef) == TRUE

\* The candidate scan skips the column of the target cell.
OtherColumn(ref, cellRef) == ref[1] # cellRef[1]

\* LearningCellPool reading the current learning flag instead of the
\* previous one.
LearningCellPool_isLearning(cs, r, cellRef, segmentID, addNewSynapses) ==
  IF ~addNewSynapses THEN << >>
  ELSE LET sources == IF segmentID >= 0
                        THEN {sy.inputSource :
                                sy \in Range(cs[cellRef[1]][cellRef[2]]
                                               .segments[segmentID+1].synapses)}
                        ELSE {}
           Ok(ref) == /\ OtherColumn(ref, cellRef)
                      /\ SrcCell(cs, ref).isLearning
                      /\ ref \notin sources
       IN  SelectSeq(ScanCells(r), Ok)

\* The learningCells array built by initSegmentUpdateInfo.
LearningCellPool(cs, r, cellRef, segmentID, addNewSynapses) ==
  IF ~addNewSynapses THEN << >>
  ELSE LET sources == IF segmentID >= 0
                        THEN {sy.inputSource :
                                sy \in Range(cs[cellRef[1]][cellRef[2]]
                                               .segments[segmentID+1].synapses)}
                        ELSE {}
           Ok(ref) == /\ OtherColumn(ref, cellRef)
                      /\ SrcCell(cs, ref).wasLearning
                      /\ ref \notin sources
       IN  SelectSeq(ScanCells(r), Ok)

\* initSegmentUpdateInfo; ss is the outcome of randomSample (empty when
\* randomSample is not called).
initSegmentUpdateInfo(cs, r, cellRef, segmentID, previous, addNewSynapses, ss) ==
  LET cell == cs[cellRef[1]][cellRef[2]]
      hasSeg == segmentID >= 0
      segment == cell.segments[segmentID+1]
      ids == IF hasSeg THEN ActiveSynapseIDsFrom(cs, segment.synapses, previous, 1)
                       ELSE << >>
      nas == IF ~hasSeg THEN 0
             ELSE IF previous THEN segment.numPrevActiveConnectedSyns
                              ELSE segment.numActiveConnectedSyns
  IN  [segmentID |-> segmentID,
       numPredictionSteps |-> 1,
       activeSynapseIDs |-> ids,
       numActiveSyns |-> nas,
       learningCells |-> ss,
       numLearningCells |-> Len(ss),
       addNewSynapses |-> addNewSynapses]

\* synCount without the subtraction of the active synapses.
InfoSynCount_wholeCount(cs, r, cellRef, segmentID, previous, addNewSynapses) ==
  Min(Len(LearningCellPool(cs, r, cellRef, segmentID, addNewSynapses)),
      r.newSynapseCount)

\* synCount of initSegmentUpdateInfo.
InfoSynCount(cs, r, cellRef, segmentID, previous, addNewSynapses) ==
  LET cell == cs[cellRef[1]][cellRef[2]]
      nas == IF segmentID < 0 THEN 0
             ELSE IF previous
               THEN cell.segments[segmentID+1].numPrevActiveConnectedSyns
               ELSE cell.segments[segmentID+1].numActiveConnectedSyns
      pool == LearningCellPool(cs, r, cellRef, segmentID, addNewSynapses)
      want == IF segmentID >= 0 THEN Max(0, r.newSynapseCount - nas)
                                ELSE r.newSynapseCount
  IN  Min(Len(pool), want)

\* The sampled learning-cell arrays initSegmentUpdateInfo can end with.
InfoSamples(cs, r, cellRef, segmentID, previous, addNewSynapses) ==
  LET pool == LearningCellPool(cs, r, cellRef, segmentID, addNewSynapses)
      synCount == InfoSynCount(cs, r, cellRef, segmentID, previous, addNewSynapses)
  IN  IF Len(pool) > 0 /\ synCount > 0 THEN randomSample(pool, synCount)
      ELSE {<< >>}

\* updateSegmentActiveSynapses: append a freshly initialised info to the
\* cell's queue; yields the new cell record.  ss is the outcome of the
\* random sampling inside initSegmentUpdateInfo.
updateSegmentActiveSynapses(cs, r, cellRef, previous, segmentID, newSynapses, ss) ==
  LET cell == cs[cellRef[1]][cellRef[2]]
  IN  [cell EXCEPT !.segmentUpdates =
         Append(cell.segmentUpdates,
                initSegmentUpdateInfo(cs, r, cellRef, segmentID, previous,
                                      newSynapses, ss))]

\* The assignment to info->numPredictionSteps left out.
SetReturnedInfoSteps_unset(cell, n) == cell

\* info->numPredictionSteps = n on the info just returned by
\* updateSegmentActiveSynapses.
SetReturnedInfoSteps(cell, n) ==
  [cell EXCEPT !.segmentUpdates[Len(cell.segmentUpdates)].numPredictionSteps = n]

RECURSIVE createSynapsesToLearningCells(_, _, _)
createSynapsesToLearningCells(info, sg, k) ==
  IF k > info.numLearningCells THEN sg
  ELSE createSynapsesToLearningCells(info,
         createSynapse(sg, info.learningCells[k], INITIAL_PERMANENCE), k+1)

createCellSegmentFromInfo(cell, info, segActiveThreshold) ==
  LET c1 == createCellSegment(cell, segActiveThreshold)
      n == Len(c1.segments)
      sg == createSynapsesToLearningCells(info,
              setNumPredictionSteps(c1.segments[n], info.numPredictionSteps), 1)
  IN  [c1 EXCEPT !.segments[n] = sg]

\* The entries of activeSynapseIDs the apply loops read (i < numActiveSyns).
InfoActiveIDs(info) ==
  {info.activeSynapseIDs[k] :
     k \in 1..Min(info.numActiveSyns, Len(info.activeSynapseIDs))}

updateInfoPermanences(cell, info) ==
  LET sg == cell.segments[info.segmentID+1]
      act == InfoActiveIDs(info)
      syns == [k \in 1..Len(sg.synapses) |->
                 LET d == decreaseSynapsePermanence(sg.synapses[k], 0)
                 IN  IF (k-1) \in act
                       THEN increaseSynapsePermanence(d, PERMANENCE_INC * 2)
                       ELSE d]
  IN  [cell EXCEPT !.segments[info.segmentID+1].synapses = syns]

\* decreaseInfoPermanences walking every synapse of the segment.
decreaseInfoPermanences_allSynapses(cell, info) ==
  LET sg == cell.segments[info.segmentID+1]
      syns == [k \in 1..Len(sg.synapses) |->
                 decreaseSynapsePermanence(sg.synapses[k], 0)]
  IN  [cell EXCEPT !.segments[info.segmentID+1].synapses = syns]

decreaseInfoPermanences(cell, info) ==
  LET sg == cell.segments[info.segmentID+1]
      act == InfoActiveIDs(info)
      syns == [k \in 1..Len(sg.synapses) |->
                 IF (k-1) \in act
                   THEN decreaseSynapsePermanence(sg.synapses[k], 0)
                   ELSE sg.synapses[k]]
  IN  [cell EXCEPT !.segments[info.segmentID+1].synapses = syns]

\* applySegmentUpdates that creates the segment whether or not learning cells
\* were sampled.
applySegmentUpdates_alwaysCreates(cell, info, positiveReinforcement, segActiveThreshold) ==
  LET hasSeg == info.segmentID >= 0
      c1 == IF hasSeg
              THEN IF positiveReinforcement THEN updateInfoPermanences(cell, info)
                                            ELSE decreaseInfoPermanences(cell, info)
              ELSE cell
  IN  IF info.addNewSynapses /\ positiveReinforcement
        THEN IF ~hasSeg
               THEN createCellSegmentFromInfo(c1, info, segActiveThreshold)
             ELSE IF info.numLearningCells > 0
               THEN [c1 EXCEPT !.segments[info.segmentID+1] =
                       createSynapsesToLearningCells(info,
                          c1.segments[info.segmentID+1], 1)]
             ELSE c1
        ELSE c1

applySegmentUpdates(cell, info, positiveReinforcement, segActiveThreshold) ==
  LET hasSeg == info.segmentID >= 0
      c1 == IF hasSeg
              THEN IF positiveReinforcement THEN updateInfoPermanences(cell, info)
                                            ELSE decreaseInfoPermanences(cell, info)
              ELSE cell
  IN  IF info.addNewSynapses /\ positiveReinforcement
        THEN IF ~hasSeg
               THEN IF info.numLearningCells > 0
                      THEN createCellSegmentFromInfo(c1, info, segActiveThreshold)
                      ELSE c1
             ELSE IF info.numLearningCells > 0
               THEN [c1 EXCEPT !.segments[info.segmentID+1] =
                       createSynapsesToLearningCells(info,
                          c1.segments[info.segmentID+1], 1)]
             ELSE c1
        ELSE c1

RECURSIVE ApplyUpdatesFrom(_, _, _, _)
ApplyUpdatesFrom(cell, k, positiveReinforcement, segActiveThreshold) ==
  IF k > Len(cell.segmentUpdates) THEN cell
  ELSE ApplyUpdatesFrom(
         applySegmentUpdates(cell, cell.segmentUpdates[k], positiveReinforcement,
                             segActiveThreshold),
         k+1, positiveReinforcement, segActiveThreshold)

\* applyCellSegmentUpdates leaving the applied updates in the queue.
applyCellSegmentUpdates_keepsQueue(cell, positiveReinforcement, segActiveThreshold) ==
  ApplyUpdatesFrom(cell, 1, positiveReinforcement, segActiveThreshold)

applyCellSegmentUpdates(cell, positiveReinforcement, segActiveThreshold) ==
  [ApplyUpdatesFrom(cell, 1, positiveReinforcement, segActiveThreshold)
     EXCEPT !.segmentUpdates = << >>]

(***************************************************************************)
(* Column                                                                  *)
(***************************************************************************)
\* First loop of getBestMatchingCell: [cell, segID] of the best cell, cell
\* -1 when bestCell stays NULL.
RECURSIVE BestCellLoop(_, _, _, _, _, _, _)
BestCellLoop(colCells, n, c, numPredictionSteps, previous, bestCount, best) ==
  IF c >= n THEN best
  ELSE LET sid == getBestMatchingSegment(colCells[c], numPredictionSteps, previous)
           sg == colCells[c].segments[sid+1]
           synCount == IF previous THEN sg.numPrevActiveAllSyns
                                   ELSE sg.numActiveAllSyns
       IN  IF sid >= 0 /\ synCount > bestCount
             THEN BestCellLoop(colCells, n, c+1, numPredictionSteps, previous,
                               synCount, [cell |-> c, segID |-> sid])
             ELSE BestCellLoop(colCells, n, c+1, numPredictionSteps, previous,
                               bestCount, best)

\* The second loop taking a later cell also when it has as many segments.
RECURSIVE FewestLoop_lastOnTies(_, _, _, _)
FewestLoop_lastOnTies(colCells, n, c, best) ==
  IF c >= n THEN best
  ELSE IF Len(colCells[c].segments) <= Len(colCells[best].segments)
    THEN FewestLoop_lastOnTies(colCells, n, c+1, c)
    ELSE FewestLoop_lastOnTies(colCells, n, c+1, best)

\* Second loop: the cell with the fewest segments, the first one on ties.
RECURSIVE FewestLoop(_, _, _, _)
FewestLoop(colCells, n, c, best) ==
  IF c >= n THEN best
  ELSE IF Len(colCells[c].segments) < Len(colCells[best].segments)
    THEN FewestLoop(colCells, n, c+1, c)
    ELSE FewestLoop(colCells, n, c+1, best)

getBestMatchingCell(colCells, n, segmentID, numPredictionSteps, previous) ==
  LET b == BestCellLoop(colCells, n, 0, numPredictionSteps, previous, 0,
                        [cell |-> -1, segID |-> segmentID])
  IN  IF b.cell = -1
        THEN [cell |-> FewestLoop(colCells, n, 1, 0), segID |-> segmentID]
        ELSE b

(***************************************************************************)
(* Region                                                                  *)
(***************************************************************************)
ColIds(r) == 0..(NumCols(r) - 1)
CellIds(r) == 0..(r.cellsPerCol - 1)

\* newRegionHardcoded(width, height, localityRadius, cellsPerCol,
\*                    segActiveThreshold, newSynapseCount, inputData)
newRegionHardcoded(inputSizeX, inputSizeY, localityRadius, cellsPerCol, segActiveThreshold, newSynapseCount) ==
  [width |-> inputSizeX, height |-> inputSizeY,
   localityRadius |-> localityRadius, cellsPerCol |-> cellsPerCol,
   segActiveThreshold |-> segActiveThreshold,
   newSynapseCount |-> newSynapseCount,
   spatialLearning |-> FALSE, temporalLearning |-> TRUE]

\* The spatial pooler's fields of a column as initColumn leaves them
\* (the floats 1.0f are kept as 1).
initColumn ==
  [overlap |-> 0, boost |-> 1, activeDutyCycle |-> 1, overlapDutyCycle |-> 1]

\* The state right after construction of region r.
Constructed(r) ==
  /\ region = r
  /\ colActive = [i \in ColIds(r) |-> FALSE]
  /\ columns = [i \in ColIds(r) |-> initColumn]
  /\ pending = {}
  /\ sequential = << >>
  /\ cells = [i \in ColIds(r) |-> [c \in CellIds(r) |-> initCell]]
  /\ inputData = [i \in ColIds(r) |-> 0]
  /\ pc = "idle"
  /\ idx = 0
  /\ history = << >>

HarnessIdle ==
  /\ syn = initSynapse(<<0, 0>>, INITIAL_PERMANENCE)
  /\ seg = initSegment(1)
  /\ calls = 0
  /\ sample = NoSample
  /\ lookup = NoLookup

\* The input vector with exactly the columns of set on active.
Bits(r, on) == [i \in ColIds(r) |-> IF i \in on THEN 1 ELSE 0]

\* A caller that feeds any vector of the set inputs, maxSteps times.
AnyOf(inputs, maxSteps) ==
  [cyclic |-> FALSE, inputs |-> inputs, sequence |-> << >>, maxSteps |-> maxSteps]

\* A caller that feeds the vectors of sequence once, then any vector of the
\* set inputs, maxSteps times in all.
After(sequence, inputs, maxSteps) ==
  [cyclic |-> FALSE, inputs |-> inputs, sequence |-> sequence, maxSteps |-> maxSteps]

\* A caller that feeds the vectors of sequence over and over (testRegion2).
CycleOf(sequence, maxSteps) ==
  [cyclic |-> TRUE, inputs |-> {}, sequence |-> sequence, maxSteps |-> maxSteps]

\* The caller refreshes the input buffer between two runOnce calls.
UpdateInput ==
  /\ pc = "idle"
  /\ Len(history) < feed.maxSteps
  /\ \E d \in (IF feed.cyclic
                 THEN {feed.sequence[(Len(history) % Len(feed.sequence)) + 1]}
               ELSE IF Len(history) < Len(feed.sequence)
                 THEN {feed.sequence[Len(history) + 1]}
                 ELSE feed.inputs) :
       inputData' = d /\ history' = Append(history, d)
  /\ pc' = "runOnce"
  /\ UNCHANGED <<region, columns, pending, sequential, colActive, cells, idx, feed, syn, seg, calls, sample, lookup>>

\* runOnce, first loop: nextColumnTimeStep on every column.
NextColumnTimeSteps ==
  /\ pc = "runOnce"
  /\ cells' = [i \in ColIds(region) |->
                 [c \in CellIds(region) |-> nextCellTimeStep(cells[i][c])]]
  /\ pc' = "spatial"
  /\ UNCHANGED <<region, columns, pending, sequential, colActive, inputData, idx, history, feed, syn, seg, calls, sample, lookup>>

\* performSpatialPooling that only switches columns on.
performSpatialPooling_keepsActive ==
  /\ pc = "spatial"
  /\ colActive' = [i \in ColIds(region) |-> colActive[i] \/ inputData[i] = 1]
  /\ pc' = "phase1"
  /\ idx' = 0
  /\ UNCHANGED <<region, columns, pending, sequential, cells, inputData, history, feed, syn, seg, calls, sample, lookup>>

\* performSpatialPooling with HARDCODE_SPATIAL.
performSpatialPooling ==
  /\ pc = "spatial"
  /\ colActive' = [i \in ColIds(region) |-> inputData[i] = 1]
  /\ pc' = "phase1"
  /\ idx' = 0
  /\ UNCHANGED <<region, columns, pending, sequential, cells, inputData, history, feed, syn, seg, calls, sample, lookup>>

\* Cells of column i that Phase 1 finds bottom-up predicted.
BuPredictedCells(cs, i) ==
  {c \in DOMAIN cs[i] :
     /\ cs[i][c].wasPredicted
     /\ LET sid == getPreviousActiveSegment(cs[i][c])
        IN  sid >= 0 /\ cs[i][c].segments[sid+1].isSequence}

\* Among them, the cells Phase 1 marks learning in its first loop.
LearningChosenCells(cs, r, i) ==
  {c \in BuPredictedCells(cs, i) :
     /\ r.temporalLearning
     /\ wasSegmentActiveFromLearning(cs,
           cs[i][c].segments[getPreviousActiveSegment(cs[i][c]) + 1])}

\* Phase1Flags whose burst activates only the first cell of the column.
Phase1Flags_burstFirst(cs, r, i) ==
  LET bu == BuPredictedCells(cs, i)
      lc == LearningChosenCells(cs, r, i)
  IN  [c \in DOMAIN cs[i] |->
         [cs[i][c] EXCEPT
            !.isActive = IF bu = {} THEN (c = 0)
                         ELSE (cs[i][c].isActive \/ c \in bu),
            !.isLearning = (cs[i][c].isLearning \/ c \in lc)]]

\* Column i after the first two loops of Phase 1 (active and learning flags).
Phase1Flags(cs, r, i) ==
  LET bu == BuPredictedCells(cs, i)
      lc == LearningChosenCells(cs, r, i)
  IN  [c \in DOMAIN cs[i] |->
         [cs[i][c] EXCEPT
            !.isActive = IF bu = {} THEN TRUE
                         ELSE (cs[i][c].isActive \/ c \in bu),
            !.isLearning = (cs[i][c].isLearning \/ c \in lc)]]

\* Phase 1, the learning branch of column i: the chosen cell enqueues an
\* update whose sampled learning cells are ss.
Phase1Learning(cs1, r, i, best, ss) ==
  [j \in DOMAIN cs1 |->
     [c \in DOMAIN cs1[j] |->
        IF j = i /\ c = best.cell
          THEN SetReturnedInfoSteps(
                 updateSegmentActiveSynapses(cs1, r, <<i, best.cell>>, TRUE,
                                             best.segID, TRUE, ss),
                 1)
          ELSE cs1[j][c]]]

\* Phase1Task without the test of col->isActive: every column is treated
\* as active.
Phase1Task_everyColumn(cs, r, act, i) ==
  LET flagged == [cs EXCEPT ![i] = Phase1Flags(cs, r, i)]
  IN  IF r.temporalLearning /\ LearningChosenCells(cs, r, i) = {}
        THEN LET best == getBestMatchingCell(flagged[i], r.cellsPerCol,
                                             -1, 1, TRUE)
                 cs1 == [flagged EXCEPT ![i][best.cell].isLearning = TRUE]
             IN  {Phase1Learning(cs1, r, i, best, ss) :
                  ss \in InfoSamples(cs1, r, <<i, best.cell>>,
                                     best.segID, TRUE, TRUE)}
        ELSE {flagged}

\* The outcomes of iteration i of the Phase 1 column loop on the cells cs:
\* one per sample randomSample can draw.
Phase1Task(cs, r, act, i) ==
  IF ~act[i] THEN {cs}
  ELSE LET flagged == [cs EXCEPT ![i] = Phase1Flags(cs, r, i)]
       IN  IF r.temporalLearning /\ LearningChosenCells(cs, r, i) = {}
             THEN LET best == getBestMatchingCell(flagged[i], r.cellsPerCol,
                                                  -1, 1, TRUE)
                      cs1 == [flagged EXCEPT ![i][best.cell].isLearning = TRUE]
                  IN  {Phase1Learning(cs1, r, i, best, ss) :
                       ss \in InfoSamples(cs1, r, <<i, best.cell>>,
                                          best.segID, TRUE, TRUE)}
             ELSE {flagged}

\* performTemporalPooling, Phase 1, iteration i of the column loop.
Phase1Column ==
  /\ pc = "phase1"
  /\ cells' \in Phase1Task(cells, region, colActive, idx)
  /\ IF idx + 1 = NumCols(region)
       THEN pc' = "phase2" /\ idx' = 0
       ELSE pc' = "phase1" /\ idx' = idx + 1
  /\ UNCHANGED <<region, columns, pending, sequential, colActive, inputData, history, feed, syn, seg, calls, sample, lookup>>

\* 0-based index of the first active segment of the cell, -1 if none.
FirstActiveSegment(cell) ==
  LET act == {k \in 1..Len(cell.segments) : cell.segments[k].isActive}
  IN  IF act = {} THEN -1
      ELSE (CHOOSE k \in act : \A o \in act : k <= o) - 1

\* Phase 2, the learning branch of cell c of column i: the predicting cell
\* enqueues an update for its best previous segment predSegID.
Phase2Learning(csB, r, i, c, predSegID, ss) ==
  LET upd == updateSegmentActiveSynapses(csB, r, <<i, c>>, TRUE, predSegID,
                                         TRUE, ss)
  IN  [j \in DOMAIN csB |->
         [k \in DOMAIN csB[j] |->
            IF j = i /\ k = c
              THEN IF predSegID < 0
                     THEN SetReturnedInfoSteps(upd,
                                               csB[i][c].predictionSteps + 1)
                     ELSE upd
              ELSE csB[j][k]]]

\* The outcomes of the iteration of the Phase 2 cell loop for cell c of
\* column i on the cells cs.
Phase2Task(cs, r, i, c) ==
  LET processed == [cs[i][c] EXCEPT !.segments =
                      [k \in 1..Len(cs[i][c].segments) |->
                         processSegment(cs, cs[i][c].segments[k])]]
      s == FirstActiveSegment(processed)
      predicting == IF s >= 0 THEN setCellPredicting(processed, TRUE)
                              ELSE processed
      csA == [cs EXCEPT ![i][c] = predicting]
      reinforced == IF s >= 0 /\ r.temporalLearning
                      THEN updateSegmentActiveSynapses(csA, r, <<i, c>>,
                                                       FALSE, s, FALSE, << >>)
                      ELSE predicting
      csB == [cs EXCEPT ![i][c] = reinforced]
  IN  IF r.temporalLearning /\ reinforced.isPredicting
        THEN LET predSegID == getBestMatchingPreviousSegment(reinforced)
             IN  {Phase2Learning(csB, r, i, c, predSegID, ss) :
                  ss \in InfoSamples(csB, r, <<i, c>>, predSegID, TRUE, TRUE)}
        ELSE {csB}

\* performTemporalPooling, Phase 2, one iteration of the cell loop.
Phase2Cell ==
  /\ pc = "phase2"
  /\ cells' \in Phase2Task(cells, region, idx \div region.cellsPerCol,
                            idx % region.cellsPerCol)
  /\ IF idx + 1 = NumCols(region) * region.cellsPerCol
       THEN pc' = "phase3" /\ idx' = 0
       ELSE pc' = "phase2" /\ idx' = idx + 1
  /\ UNCHANGED <<region, columns, pending, sequential, colActive, inputData, history, feed, syn, seg, calls, sample, lookup>>

\* Phase3Cell whose second branch does not test isPredicting.
Phase3Cell_wasPredictedOnly(cell, r) ==
  IF cell.isLearning
    THEN applyCellSegmentUpdates(cell, TRUE, r.segActiveThreshold)
  ELSE IF cell.wasPredicted
    THEN applyCellSegmentUpdates(cell, FALSE, r.segActiveThreshold)
  ELSE cell

\* The cell after its iteration of the Phase 3 loop.
Phase3Cell(cell, r) ==
  IF cell.isLearning
    THEN applyCellSegmentUpdates(cell, TRUE, r.segActiveThreshold)
  ELSE IF ~cell.isPredicting /\ cell.wasPredicted
    THEN applyCellSegmentUpdates(cell, FALSE, r.segActiveThreshold)
  ELSE cell

\* The Phase 3 loop run also with temporal learning off.
Phase3Loop_always(cs, r) ==
  [i \in ColIds(r) |-> [c \in CellIds(r) |-> Phase3Cell(cs[i][c], r)]]

\* The cells after the Phase 3 loop, which is skipped with temporal learning
\* off.
Phase3Loop(cs, r) ==
  IF ~r.temporalLearning THEN cs
  ELSE [i \in ColIds(r) |-> [c \in CellIds(r) |-> Phase3Cell(cs[i][c], r)]]

\* performTemporalPooling, Phase 3 (the whole loop), and the return of
\* runOnce.
Phase3 ==
  /\ pc = "phase3"
  /\ cells' = Phase3Loop(cells, region)
  /\ pc' = "idle"
  /\ UNCHANGED <<region, columns, pending, sequential, colActive, inputData, idx, history, feed, syn, seg, calls, sample, lookup>>

RunOnceStep ==
  \/ NextColumnTimeSteps
  \/ performSpatialPooling
  \/ Phase1Column
  \/ Phase2Cell
  \/ Phase3

\* The sparse input vectors of region r: at most MaxActive bits are 1.
SparseInputs(r) ==
  {Bits(r, on) : on \in {o \in SUBSET ColIds(r) : Cardinality(o) <= MaxActive}}

\* Number of runOnce calls started.
Steps == Len(history)

\* The general specification: regions of NumColumns columns in one row,
\* fed any input vector.
NumColumns == 3
Regions ==
  {newRegionHardcoded(NumColumns, 1, 0, 2, 1, nsc) : nsc \in {1, 2}}

Init ==
  /\ \E r \in Regions : Constructed(r) /\ feed = AnyOf(SparseInputs(r), MaxSteps)
  /\ HarnessIdle

Next == UpdateInput \/ RunOnceStep

Spec == Init /\ [][Next]_vars

(***************************************************************************)
(* Free-standing synapse, driven as in testSynapse: any sequence of        *)
(* increaseSynapsePermanence / decreaseSynapsePermanence calls.            *)
(***************************************************************************)
HarnessRegion == newRegionHardcoded(2, 1, 0, 1, 1, 1)

\* Initial permanences and call amounts that are tried (0 = default amount).
InitialPermanences ==
  {0, PERMANENCE_DEC, CONNECTED_PERM, INITIAL_PERMANENCE,
   MAX_PERM - PERMANENCE_INC, MAX_PERM}
Amounts == {0, 1, PERMANENCE_INC * 2, MAX_PERM, INT_MAX - MAX_PERM, INT_MAX}

InitSynapse ==
  /\ Constructed(HarnessRegion)
  /\ feed = AnyOf({}, 0)
  /\ \E p \in InitialPermanences : syn = initSynapse(<<0, 0>>, p)
  /\ seg = initSegment(1)
  /\ calls = 0
  /\ sample = NoSample
  /\ lookup = NoLookup

IncreaseSynapse ==
  /\ calls < MaxCalls
  /\ \E amount \in Amounts : syn' = increaseSynapsePermanence(syn, amount)
  /\ calls' = calls + 1
  /\ UNCHANGED <<regionVars, seg, sample, lookup>>

DecreaseSynapse ==
  /\ calls < MaxCalls
  /\ \E amount \in Amounts : syn' = decreaseSynapsePermanence(syn, amount)
  /\ calls' = calls + 1
  /\ UNCHANGED <<regionVars, seg, sample, lookup>>

NextSynapse == IncreaseSynapse \/ DecreaseSynapse

SpecSynapse == InitSynapse /\ [][NextSynapse]_vars

(***************************************************************************)
(* Free-standing segment, driven as in testSegment: its source cells are   *)
(* two stand-alone cells whose activity the test sets directly.            *)
(***************************************************************************)
InitSegment ==
  /\ \E thr \in {1, 2} : seg = initSegment(thr)
  /\ region = HarnessRegion
  /\ colActive = [i \in ColIds(HarnessRegion) |-> FALSE]
  /\ columns = [i \in ColIds(HarnessRegion) |-> initColumn]
  /\ pending = {}
  /\ sequential = << >>
  /\ \E a0 \in BOOLEAN, a1 \in BOOLEAN :
       cells = [i \in ColIds(HarnessRegion) |-> [c \in CellIds(HarnessRegion) |->
                  [initCell EXCEPT !.isActive = IF i = 0 THEN a0 ELSE a1]]]
  /\ inputData = [i \in ColIds(HarnessRegion) |-> 0]
  /\ pc = "idle" /\ idx = 0 /\ history = << >>
  /\ feed = AnyOf({}, 0)
  /\ syn = initSynapse(<<0, 0>>, INITIAL_PERMANENCE)
  /\ calls = 0
  /\ sample = NoSample
  /\ lookup = NoLookup

SegCreateSynapse ==
  /\ calls < MaxSegCalls
  /\ Len(seg.synapses) < MaxSegSyns
  /\ \E i \in ColIds(region), perm \in {CONNECTED_PERM, CONNECTED_PERM - PERMANENCE_INC} :
       seg' = createSynapse(seg, <<i, 0>>, perm)
  /\ calls' = calls + 1
  /\ UNCHANGED <<regionVars, syn, sample, lookup>>

SegProcess ==
  /\ calls < MaxSegCalls
  /\ seg' = processSegment(cells, seg)
  /\ calls' = calls + 1
  /\ UNCHANGED <<regionVars, syn, sample, lookup>>

SegNextTimeStep ==
  /\ calls < MaxSegCalls
  /\ seg' = nextSegmentTimeStep(seg)
  /\ calls' = calls + 1
  /\ UNCHANGED <<regionVars, syn, sample, lookup>>

SegUpdatePermanences ==
  /\ calls < MaxSegCalls
  /\ \E increase \in BOOLEAN : seg' = updateSegmentPermanences(seg, increase)
  /\ calls' = calls + 1
  /\ UNCHANGED <<regionVars, syn, sample, lookup>>

NextSegment ==
  SegCreateSynapse \/ SegProcess \/ SegNextTimeStep \/ SegUpdatePermanences

SpecSegment == InitSegment /\ [][NextSegment]_vars

(***************************************************************************)
(* C1.  After every increaseSynapsePermanence / decreaseSynapsePermanence  *)
(* call, with the default amount or any explicit non-negative amount, the  *)
(* permanence of a synapse that started in [0, MAX_PERM] lies in           *)
(* [0, MAX_PERM].                                                          *)
(***************************************************************************)
C1_PermanenceInRange == syn.permanence >= 0 /\ syn.permanence <= MAX_PERM

(***************************************************************************)
(* C2.  A segment's isActive flag is true if and only if its cached        *)
(* numActiveConnectedSyns is >= its segActiveThreshold, in every state     *)
(* reached through processSegment, nextSegmentTimeStep, createSynapse and  *)
(* permanence updates -- before and after nextSegmentTimeStep.             *)
(***************************************************************************)
C2_ActiveIffCountReachesThreshold ==
  seg.isActive <=> (seg.numActiveConnectedSyns >= seg.segActiveThreshold)

(***************************************************************************)
(* The regions of testRegion1: one cell per column, segActiveThreshold 1,  *)
(* newSynapseCount 1, fed any input vector.                                *)
(***************************************************************************)
Test1Regions == {newRegionHardcoded(w, 1, 0, 1, 1, 1) : w \in {2, NumColumns}}

InitTest1 ==
  /\ \E r \in Test1Regions :
       Constructed(r) /\ feed = AnyOf(SparseInputs(r), MaxStepsTest1)
  /\ HarnessIdle

SpecTest1 == InitTest1 /\ [][Next]_vars

(***************************************************************************)
(* C3.  One cell per column, segActiveThreshold = 1, newSynapseCount = 1,  *)
(* temporal learning on, from the freshly constructed region: after a      *)
(* step in which only column A is active, A's cell is active and learning, *)
(* every other cell is inactive and no segment exists; after a following   *)
(* runOnce in which only another column B is active, B's cell has exactly  *)
(* one segment, holding exactly one synapse, whose source is A's cell.     *)
(***************************************************************************)
C3_FirstSegmentFromPreviousLearningCell ==
  \A A \in ColIds(region), B \in ColIds(region) :
    ( /\ region.cellsPerCol = 1 /\ region.segActiveThreshold = 1
      /\ region.newSynapseCount = 1 /\ region.temporalLearning
      /\ pc = "idle" /\ Steps >= 1 /\ history[1] = Bits(region, {A}) )
    => /\ Steps = 1 =>
            /\ cells[A][0].isActive /\ cells[A][0].isLearning
            /\ \A i \in ColIds(region) \ {A} : ~cells[i][0].isActive
            /\ \A i \in ColIds(region) : cells[i][0].segments = << >>
       /\ (Steps = 2 /\ B # A /\ history[2] = Bits(region, {B})) =>
            /\ Len(cells[B][0].segments) = 1
            /\ Len(cells[B][0].segments[1].synapses) = 1
            /\ cells[B][0].segments[1].synapses[1].inputSource = <<A, 0>>

C3_Witness ==
  /\ pc = "idle" /\ Steps = 2
  /\ \E A \in ColIds(region), B \in ColIds(region) :
       /\ A # B
       /\ history = <<Bits(region, {A}), Bits(region, {B})>>
       /\ Len(cells[B][0].segments) = 1
       /\ cells[B][0].segments[1].synapses[1].inputSource = <<A, 0>>

(***************************************************************************)
(* getLastAccuracy.  A float quotient of two small ints is kept as the     *)
(* pair <<numerator, denominator>>; it equals 1.0f exactly when the two    *)
(* are equal and 0.0f exactly when the numerator is 0.                     *)
(***************************************************************************)
Quotient(num, den) == IF den > 0 THEN <<num, den>> ELSE <<0, 1>>
IsOne(q) == q[1] = q[2]
IsZero(q) == q[1] = 0

\* Column i has a cell that was predicted through a sequence segment (addP).
PredictedColumn(cs, i) ==
  \E c \in DOMAIN cs[i] :
     /\ cs[i][c].wasPredicted
     /\ \E k \in 1..Len(cs[i][c].segments) :
          cs[i][c].segments[k].wasActive /\ cs[i][c].segments[k].isSequence

\* The segment loop of getLastAccuracy from segment s on: addP.
RECURSIVE AddPSegments(_, _)
AddPSegments(segs, s) ==
  IF s > Len(segs) THEN FALSE
  ELSE IF segs[s].wasActive /\ segs[s].isSequence THEN TRUE
  ELSE AddPSegments(segs, s + 1)

\* The cell loop of getLastAccuracy from cell c on: whether it reaches the
\* increment of sumP before its end.
RECURSIVE AddPCells(_, _, _)
AddPCells(colCells, n, c) ==
  IF c >= n THEN FALSE
  ELSE IF colCells[c].wasPredicted /\ AddPSegments(colCells[c].segments, 1) THEN TRUE
  ELSE AddPCells(colCells, n, c + 1)

\* The column loop of getLastAccuracy from column i on.
RECURSIVE AccuracySums(_, _, _, _, _)
AccuracySums(r, act, cs, i, sums) ==
  IF i >= NumCols(r) THEN sums
  ELSE LET addP == AddPCells(cs[i], r.cellsPerCol, 0)
       IN  AccuracySums(r, act, cs, i + 1,
             [sumA |-> sums.sumA + (IF act[i] THEN 1 ELSE 0),
              sumP |-> sums.sumP + (IF addP THEN 1 ELSE 0),
              sumAP |-> sums.sumAP + (IF addP /\ act[i] THEN 1 ELSE 0)])

\* getLastAccuracy dividing both sums by the number of active columns.
getLastAccuracy_sameDenominator(r, act, cs) ==
  LET sums == AccuracySums(r, act, cs, 0, [sumA |-> 0, sumP |-> 0, sumAP |-> 0])
  IN  [activationAcc |-> Quotient(sums.sumAP, sums.sumA),
       predictionAcc |-> Quotient(sums.sumAP, sums.sumA)]

getLastAccuracy(r, act, cs) ==
  LET sums == AccuracySums(r, act, cs, 0, [sumA |-> 0, sumP |-> 0, sumAP |-> 0])
  IN  [activationAcc |-> Quotient(sums.sumAP, sums.sumA),
       predictionAcc |-> Quotient(sums.sumAP, sums.sumP)]

(***************************************************************************)
(* The regions of testRegion2: one cell per column, segActiveThreshold 3,  *)
(* newSynapseCount 4, driven by a repeating cycle of L disjoint patterns   *)
(* of PatternBits adjacent columns each.                                   *)
(***************************************************************************)
MaxCycleLen == 11    \* longest cycle of patterns
MaxStepsTest2 == 45  \* runOnce calls in one behaviour of the testRegion2 regions

Test2Region(L) == newRegionHardcoded(L * 4, 1, 0, 1, 3, 4)

\* Pattern i of the cycle: columns i*bits .. i*bits + bits - 1.
Pattern(r, i) ==
  Bits(r, {j \in ColIds(r) : j \div r.newSynapseCount = i})

InitTest2 ==
  /\ \E L \in 1..MaxCycleLen :
       /\ Constructed(Test2Region(L))
       /\ feed = CycleOf([k \in 1..L |-> Pattern(Test2Region(L), k-1)],
                         MaxStepsTest2)
  /\ HarnessIdle

SpecTest2 == InitTest2 /\ [][Next]_vars

(***************************************************************************)
(* C4 as stated, for a cycle of any length L >= 1: after every runOnce of  *)
(* the first presentation and after the first runOnce of the second,       *)
(* getLastAccuracy returns 0 for both accuracies; after every later        *)
(* runOnce it returns 1.0 for both.                                        *)
(***************************************************************************)
AccuracyZeroThenOne ==
  LET acc == getLastAccuracy(region, colActive, cells)
      L == Len(feed.sequence)
  IN  IF Steps <= L + 1
        THEN IsZero(acc.activationAcc) /\ IsZero(acc.predictionAcc)
        ELSE IsOne(acc.activationAcc) /\ IsOne(acc.predictionAcc)

Test2Returned ==
  /\ feed.cyclic /\ pc = "idle" /\ Steps >= 1
  /\ region.cellsPerCol = 1 /\ region.segActiveThreshold = 3
  /\ region.newSynapseCount = 4 /\ region.temporalLearning

C4_AccuracyZeroThenOne == Test2Returned => AccuracyZeroThenOne

(***************************************************************************)
(* C4.  cellsPerCol = 1, segActiveThreshold = 3, newSynapseCount = 4,      *)
(* temporal learning on, a repeating cycle of L >= 2 pairwise-disjoint     *)
(* patterns of newSynapseCount active bits: after every runOnce of the     *)
(* first presentation and after the first runOnce of the second,           *)
(* getLastAccuracy returns 0 for both accuracies; after every later        *)
(* runOnce it returns 1.0 for both.  (With a single repeated pattern the   *)
(* third runOnce still returns 0.)                                         *)
(***************************************************************************)
C4_AccuracyZeroThenOne_TwoOrMorePatterns ==
  (Test2Returned /\ Len(feed.sequence) >= 2) => AccuracyZeroThenOne

C4_Witness ==
  /\ Test2Returned
  /\ Len(feed.sequence) >= 2
  /\ Steps >= (3 * Len(feed.sequence)) + 2
  /\ IsOne(getLastAccuracy(region, colActive, cells).activationAcc)
  /\ IsOne(getLastAccuracy(region, colActive, cells).predictionAcc)

(***************************************************************************)
(* A region of four columns with one cell each, segActiveThreshold 1 and   *)
(* newSynapseCount 3.  The caller first feeds {0,1}, {3}, {0,1}, {0,1},    *)
(* {3}, which leaves the cell of column 3 with a sequence segment and a    *)
(* two-step segment on the cells of columns 0 and 1, and then any of the   *)
(* vectors {0,1}, {0,1,2} and {3}.                                         *)
(***************************************************************************)
MaxStepsRepeat == 4  \* runOnce calls after the fixed prefix

RepeatRegion == newRegionHardcoded(4, 1, 0, 1, 1, 3)
RepeatInputs ==
  {Bits(RepeatRegion, {0, 1}), Bits(RepeatRegion, {0, 1, 2}), Bits(RepeatRegion, {3})}
RepeatPrefix ==
  <<Bits(RepeatRegion, {0, 1}), Bits(RepeatRegion, {3}), Bits(RepeatRegion, {0, 1}),
    Bits(RepeatRegion, {0, 1}), Bits(RepeatRegion, {3})>>

InitRepeat ==
  /\ Constructed(RepeatRegion)
  /\ feed = After(RepeatPrefix, RepeatInputs, Len(RepeatPrefix) + MaxStepsRepeat)
  /\ HarnessIdle

SpecRepeat == InitRepeat /\ [][Next]_vars

\* The segments of all cells of the region.
AllSegments ==
  UNION {Range(cells[i][c].segments) : i \in ColIds(region), c \in CellIds(region)}

(***************************************************************************)
(* C5.  In every state reachable by runOnce calls, no segment holds two    *)
(* synapses with the same source cell, also after pending updates of       *)
(* different time steps that target the same segment are applied together. *)
(***************************************************************************)
C5_NoDuplicateSources ==
  \A sg \in AllSegments :
    \A j \in 1..Len(sg.synapses), k \in 1..Len(sg.synapses) :
      sg.synapses[j].inputSource = sg.synapses[k].inputSource => j = k

AllCells == {<<i, c>> : i \in ColIds(region), c \in CellIds(region)}

(***************************************************************************)
(* C6.  For every SegmentUpdateInfo built with addNewSynapses, neither the *)
(* candidate pool nor the sampled learning cells contain a cell of the     *)
(* target cell's own column; hence in every reachable state no synapse on  *)
(* a segment of cell c has its source in c's column.                       *)
(***************************************************************************)
C6_NoSourceInOwnColumn ==
  \A ref \in AllCells :
    LET cell == SrcCell(cells, ref)
    IN  /\ \A sid \in -1..(Len(cell.segments) - 1) :
             \A src \in Range(LearningCellPool(cells, region, ref, sid, TRUE)) :
               src[1] # ref[1]
        /\ \A u \in 1..Len(cell.segmentUpdates) :
             \A src \in Range(cell.segmentUpdates[u].learningCells) :
               src[1] # ref[1]
        /\ \A k \in 1..Len(cell.segments) :
             \A j \in 1..Len(cell.segments[k].synapses) :
               cell.segments[k].synapses[j].inputSource[1] # ref[1]

C6_Witness ==
  \E ref \in AllCells :
    LET cell == SrcCell(cells, ref)
    IN  /\ \E k \in 1..Len(cell.segments) : Len(cell.segments[k].synapses) > 0
        /\ \E u \in 1..Len(cell.segmentUpdates) :
             /\ cell.segmentUpdates[u].addNewSynapses
             /\ cell.segmentUpdates[u].numLearningCells > 0
        /\ \E c \in CellIds(region) : cells[ref[1]][c].wasLearning

MaxStepsTwoCells == 4  \* runOnce calls in one behaviour of this region

TwoCellsRegion == newRegionHardcoded(2, 1, 0, 2, 1, 1)

InitTwoCells ==
  /\ Constructed(TwoCellsRegion)
  /\ feed = AnyOf([ColIds(TwoCellsRegion) -> {0, 1}], MaxStepsTwoCells)
  /\ HarnessIdle

SpecTwoCells == InitTwoCells /\ [][Next]_vars

\* Condition (a) of Phase 1: the cell was predicting in the previous step
\* and one of its sequence segments was active in the previous step.
PredictedBySequence(cell) ==
  /\ cell.wasPredicted
  /\ \E k \in 1..Len(cell.segments) :
       cell.segments[k].isSequence /\ cell.segments[k].wasActive

Phase1Done == pc = "phase2" /\ idx = 0

(***************************************************************************)
(* C8.  After Phase 1, in every active column a cell is active iff (a) it  *)
(* was predicting in the previous step and one of its sequence segments    *)
(* was active in the previous step, or (b) no cell of the column satisfies *)
(* (a), the column bursting with all its cells active.                     *)
(***************************************************************************)
C8_ActiveIffPredictedOrBurst ==
  Phase1Done
  => \A i \in ColIds(region) :
       colActive[i]
       => \A c \in CellIds(region) :
            cells[i][c].isActive
              <=> \/ PredictedBySequence(cells[i][c])
                  \/ \A o \in CellIds(region) : ~PredictedBySequence(cells[i][o])

\* The segments (1-based) of the cell that were active in the previous step:
\* previous connected-active count >= threshold.
WasActiveSegments(cell) ==
  {k \in 1..Len(cell.segments) :
     cell.segments[k].numPrevActiveConnectedSyns >= cell.segments[k].segActiveThreshold}

(***************************************************************************)
(* C9.  getPreviousActiveSegment returns none iff no segment of the cell   *)
(* was active in the previous step; otherwise it returns a segment that    *)
(* was active, a sequence segment whenever one of those is a sequence      *)
(* segment, and within that class one with the highest previous            *)
(* connected-active synapse count, whatever the order of the segments.     *)
(***************************************************************************)
C9_PreviousActiveSegmentChoice ==
  \A ref \in AllCells :
    LET cell == SrcCell(cells, ref)
        was == WasActiveSegments(cell)
        seqs == {k \in was : cell.segments[k].isSequence}
        class == IF seqs # {} THEN seqs ELSE was
        sid == getPreviousActiveSegment(cell)
    IN  /\ (sid = -1) <=> (was = {})
        /\ sid >= 0 =>
             /\ (sid + 1) \in class
             /\ \A k \in class :
                  cell.segments[k].numPrevActiveConnectedSyns
                    <= cell.segments[sid + 1].numPrevActiveConnectedSyns

(***************************************************************************)
(* A region of five columns with two cells each, segActiveThreshold 1 and  *)
(* newSynapseCount 2.  The caller first feeds {0,1}, {4}, {}, {2,3}, {4},  *)
(* which gives each of the two cells of column 4 a sequence segment, then  *)
(* {0,1,2,3}, and then any of the vectors {}, {0,1} and {4}.               *)
(***************************************************************************)
MaxStepsPair == 1    \* runOnce calls after the fixed prefix

PairRegion == newRegionHardcoded(5, 1, 0, 2, 1, 2)
PairInputs ==
  {Bits(PairRegion, {}), Bits(PairRegion, {0, 1}), Bits(PairRegion, {4})}
PairPrefix ==
  <<Bits(PairRegion, {0, 1}), Bits(PairRegion, {4}), Bits(PairRegion, {}),
    Bits(PairRegion, {2, 3}), Bits(PairRegion, {4}), Bits(PairRegion, {0, 1, 2, 3})>>

InitPair ==
  /\ Constructed(PairRegion)
  /\ feed = After(PairPrefix, PairInputs, Len(PairPrefix) + MaxStepsPair)
  /\ HarnessIdle

SpecPair == InitPair /\ [][Next]_vars

(***************************************************************************)
(* C10.  After Phase 1 with temporal learning on, every active column has  *)
(* exactly one cell with isLearning set.                                   *)
(***************************************************************************)
C10_OneLearningCellPerActiveColumn ==
  (Phase1Done /\ region.temporalLearning)
  => \A i \in ColIds(region) :
       colActive[i]
       => Cardinality({c \in CellIds(region) : cells[i][c].isLearning}) = 1

Phase2Done == pc = "phase3"

(***************************************************************************)
(* C11.  After Phase 2, for every cell: isPredicting is true iff at least  *)
(* one of its segments is active in the current step, and a predicting     *)
(* cell's predictionSteps is the minimum predictionSteps over its active   *)
(* segments.                                                               *)
(***************************************************************************)
C11_PredictingIffActiveSegment ==
  Phase2Done
  => \A ref \in AllCells :
       LET cell == SrcCell(cells, ref)
           act == {k \in 1..Len(cell.segments) : cell.segments[k].isActive}
       IN  /\ cell.isPredicting <=> (act # {})
           /\ cell.isPredicting =>
                /\ \E k \in act : cell.segments[k].predictionSteps = cell.predictionSteps
                /\ \A k \in act : cell.segments[k].predictionSteps >= cell.predictionSteps

C11_Witness ==
  /\ Phase2Done
  /\ \E ref \in AllCells :
       LET cell == SrcCell(cells, ref)
       IN  /\ cell.isPredicting
           /\ \E j \in 1..Len(cell.segments), k \in 1..Len(cell.segments) :
                /\ cell.segments[j].isActive /\ cell.segments[k].isActive
                /\ cell.segments[j].predictionSteps < cell.segments[k].predictionSteps

(***************************************************************************)
(* A region with one cell per column, segActiveThreshold 1 and            *)
(* newSynapseCount 2, driven as in testRegion2 by a cycle of               *)
(* MAX_TIME_STEPS + 1 patterns of two columns for many presentations, so   *)
(* that the chains of multi-step segments grow to MAX_TIME_STEPS.          *)
(***************************************************************************)
MaxStepsSample == 4   \* runOnce calls of the sampling runs
MaxStepsLocal == 3    \* runOnce calls of the locality runs
MaxStepsOwner == 1    \* free runOnce calls after the prefix of the owner runs
MaxStepsOff == 3        \* runOnce calls after the prefix of the runs that switch learning off
MaxPool == 4            \* cells in the pool of a randomSample call on its own
MaxSampleCalls == 1     \* randomSample calls in one behaviour of the sampling harness
MaxStepsLearner == 1    \* free runOnce calls after the prefix of the learner runs
MaxGrid == 3            \* largest width and height of the column grids looked up by position
MaxRadius == 1          \* largest rounded inhibitionRadius of a performBoosting call
MaxLookups == 1         \* lookups by position in one behaviour of the grid runs
MaxStepsConstant == 8   \* runOnce calls of the runs with one repeated input
MaxStepsParallel == 1   \* free runOnce calls after the prefix of the parallel runs
MaxStepsChain == 125  \* runOnce calls in one behaviour of this region

ChainRegion == newRegionHardcoded((MAX_TIME_STEPS + 1) * 2, 1, 0, 1, 1, 2)

InitChain ==
  /\ Constructed(ChainRegion)
  /\ feed = CycleOf([k \in 1..(MAX_TIME_STEPS + 1) |-> Pattern(ChainRegion, k-1)],
                    MaxStepsChain)
  /\ HarnessIdle

SpecChain == InitChain /\ [][Next]_vars

\* The updates an action appends to the queue of a cell.
EnqueuedBy(old, new) ==
  SubSeq(new.segmentUpdates, Len(old.segmentUpdates) + 1, Len(new.segmentUpdates))

\* Phase 2b of one cell: a predicting cell enqueues exactly one update with
\* addNewSynapses, aimed at a segment of predictionSteps + 1 steps with the
\* most synapses active in the previous step, or at a new segment of that
\* many steps when no segment of that many steps matches.
Phase2bEnqueue ==
  (pc = "phase2" /\ region.temporalLearning)
  => LET i == idx \div region.cellsPerCol
         c == idx % region.cellsPerCol
         new == cells'[i][c]
         added == EnqueuedBy(cells[i][c], new)
         steps == new.predictionSteps + 1
         matching == {k \in 1..Len(new.segments) :
                        /\ new.segments[k].predictionSteps = steps
                        /\ new.segments[k].numPrevActiveAllSyns
                             > MIN_SYNAPSES_PER_SEGMENT_THRESHOLD}
     IN  new.isPredicting
         => /\ Cardinality({k \in 1..Len(added) : added[k].addNewSynapses}) = 1
            /\ LET info == added[Len(added)]
               IN  /\ info.addNewSynapses
                   /\ IF matching = {}
                        THEN info.segmentID = -1 /\ info.numPredictionSteps = steps
                        ELSE /\ (info.segmentID + 1) \in matching
                             /\ \A k \in matching :
                                  new.segments[k].numPrevActiveAllSyns
                                    <= new.segments[info.segmentID + 1].numPrevActiveAllSyns

\* The pending updates of a cell that create a segment when applied
\* positively.
CreatingUpdates(cell) ==
  LET Creates(info) == /\ info.segmentID = -1 /\ info.addNewSynapses
                       /\ info.numLearningCells > 0
  IN  SelectSeq(cell.segmentUpdates, Creates)

\* Phase 3: the segments a learning cell gains are those of its creating
\* updates, in order; clamped tells whether the steps of the update are
\* clamped at MAX_TIME_STEPS.
Phase3Creates(clamped) ==
  (pc = "phase3" /\ region.temporalLearning)
  => \A ref \in AllCells :
       LET old == SrcCell(cells, ref)
           new == SrcCell(cells', ref)
           creating == CreatingUpdates(old)
       IN  old.isLearning
           => /\ Len(new.segments) = Len(old.segments) + Len(creating)
              /\ \A k \in 1..Len(creating) :
                   new.segments[Len(old.segments) + k].predictionSteps
                     = IF clamped THEN Min(MAX_TIME_STEPS, creating[k].numPredictionSteps)
                                  ELSE creating[k].numPredictionSteps

(***************************************************************************)
(* C12 as stated: in Phase 2 every predicting cell enqueues one update     *)
(* with addNewSynapses aimed at its best-matching previous-step segment of *)
(* predictionSteps + 1 steps; when there is none, the positive application *)
(* of the update with a non-empty sample creates a segment whose           *)
(* predictionSteps is the cell's predictionSteps at enqueue + 1.           *)
(***************************************************************************)
C12_NewSegmentOneStepFurther == [][Phase2bEnqueue /\ Phase3Creates(FALSE)]_vars

(***************************************************************************)
(* C12.  In Phase 2 every predicting cell enqueues one update with         *)
(* addNewSynapses aimed at its best-matching previous-step segment of      *)
(* predictionSteps + 1 steps; when there is none, the positive application *)
(* of the update with a non-empty sample creates a segment whose           *)
(* predictionSteps is the smaller of MAX_TIME_STEPS and the cell's         *)
(* predictionSteps at enqueue + 1.                                         *)
(***************************************************************************)
C12_NewSegmentOneStepFurtherClamped == [][Phase2bEnqueue /\ Phase3Creates(TRUE)]_vars

C12_Witness ==
  /\ pc = "idle"
  /\ \E ref \in AllCells :
       LET cell == SrcCell(cells, ref)
       IN  \E j \in 1..Len(cell.segments), k \in 1..Len(cell.segments) :
             /\ j < k
             /\ cell.segments[j].predictionSteps = MAX_TIME_STEPS
             /\ cell.segments[k].predictionSteps = MAX_TIME_STEPS

\* What a cell owns: its segments, their synapses and permanences.
Structure(cell) ==
  [k \in 1..Len(cell.segments) |->
     [steps |-> cell.segments[k].predictionSteps,
      syns |-> [j \in 1..Len(cell.segments[k].synapses) |->
                  <<cell.segments[k].synapses[j].inputSource,
                    cell.segments[k].synapses[j].permanence>>]]]

\* The two classes of cells Phase 3 applies updates for.
LearningNow(cell) == cell.isLearning
StoppedPredicting(cell) == ~cell.isLearning /\ ~cell.isPredicting /\ cell.wasPredicted

\* The queued updates (positions) that target segment sid (0-based), and
\* those among them whose snapshot lists synapse j (0-based) as active.
Targeting(cell, sid) ==
  {u \in 1..Len(cell.segmentUpdates) : cell.segmentUpdates[u].segmentID = sid}
Listing(cell, sid, j) ==
  {u \in Targeting(cell, sid) : j \in InfoActiveIDs(cell.segmentUpdates[u])}

\* The number of synapses the queued updates from position u on add to
\* segment sid when applied positively.
RECURSIVE AddedSynapses(_, _, _)
AddedSynapses(cell, sid, u) ==
  IF u > Len(cell.segmentUpdates) THEN 0
  ELSE (IF cell.segmentUpdates[u].segmentID = sid /\ cell.segmentUpdates[u].addNewSynapses
          THEN cell.segmentUpdates[u].numLearningCells ELSE 0)
       + AddedSynapses(cell, sid, u + 1)

\* The effect of one positive application of the whole queue of old, seen
\* on new: every synapse old already had loses PERMANENCE_DEC for each
\* update targeting its segment and gains 2 * PERMANENCE_INC for each one
\* listing it (stated where no clamp intervenes); the segment gains the
\* sampled cells of its updates; the creating updates add segments.
PositiveEffect(old, new) ==
  /\ new.segmentUpdates = << >>
  /\ Len(new.segments) = Len(old.segments) + Len(CreatingUpdates(old))
  /\ \A k \in 1..Len(old.segments) :
       /\ Len(new.segments[k].synapses)
            = Len(old.segments[k].synapses) + AddedSynapses(old, k - 1, 1)
       /\ \A j \in 1..Len(old.segments[k].synapses) :
            LET perm == old.segments[k].synapses[j].permanence
                down == PERMANENCE_DEC * Cardinality(Targeting(old, k - 1))
                up == (PERMANENCE_INC * 2) * Cardinality(Listing(old, k - 1, j - 1))
            IN  (down <= perm /\ perm + up <= MAX_PERM)
                => new.segments[k].synapses[j].permanence = (perm - down) + up

\* The effect of one negative application of the whole queue: every synapse
\* loses PERMANENCE_DEC for each update listing it, nothing is created.
NegativeEffect(old, new) ==
  /\ new.segmentUpdates = << >>
  /\ Len(new.segments) = Len(old.segments)
  /\ \A k \in 1..Len(old.segments) :
       /\ Len(new.segments[k].synapses) = Len(old.segments[k].synapses)
       /\ \A j \in 1..Len(old.segments[k].synapses) :
            new.segments[k].synapses[j].permanence
              = Max(0, old.segments[k].synapses[j].permanence
                         - (PERMANENCE_DEC * Cardinality(Listing(old, k - 1, j - 1))))

(***************************************************************************)
(* C13.  With temporal learning on, Phase 3 applies a cell's pending       *)
(* updates positively iff the cell is learning, negatively iff it is not   *)
(* learning, not predicting and was predicting in the previous step; for   *)
(* every other cell no permanence, synapse or segment of the cell changes  *)
(* during the step (its queue is left as it is), and the updates are       *)
(* applied once: the cell's structure changes in no other action.          *)
(***************************************************************************)
C13_Phase3AppliesByClass ==
  [][\A ref \in AllCells :
       LET old == SrcCell(cells, ref)
           new == SrcCell(cells', ref)
       IN  IF pc = "phase3" /\ region.temporalLearning
             THEN IF LearningNow(old) THEN PositiveEffect(old, new)
                  ELSE IF StoppedPredicting(old) THEN NegativeEffect(old, new)
                  ELSE Structure(new) = Structure(old)
                         /\ new.segmentUpdates = old.segmentUpdates
             ELSE Structure(new) = Structure(old)]_vars

C13_Witness ==
  /\ pc = "idle"
  /\ \E ref \in AllCells :
       LET cell == SrcCell(cells, ref)
       IN  /\ StoppedPredicting(cell)
           /\ \E k \in 1..Len(cell.segments) : \E j \in 1..Len(cell.segments[k].synapses) :
                cell.segments[k].synapses[j].permanence < INITIAL_PERMANENCE
  /\ \E ref \in AllCells :
       LET cell == SrcCell(cells, ref)
       IN  /\ LearningNow(cell)
           /\ \E k \in 1..Len(cell.segments) : \E j \in 1..Len(cell.segments[k].synapses) :
                cell.segments[k].synapses[j].permanence > INITIAL_PERMANENCE

(***************************************************************************)
(* applySegmentUpdates on its own: cell (0,0) of a four-column region owns *)
(* one segment with synapses to the cells of columns 1 and 2, and one      *)
(* SegmentUpdateInfo at a time, snapshotted from that segment, is applied  *)
(* to it with positive or negative reinforcement.                          *)
(***************************************************************************)
ApplyRegion == newRegionHardcoded(4, 1, 0, 1, 1, 2)
ApplyPermanences == {0, PERMANENCE_DEC \div 2, INITIAL_PERMANENCE}

\* The elements of a set of integers in ascending order.
RECURSIVE Ascending(_)
Ascending(S) ==
  IF S = {} THEN << >>
  ELSE LET lo == CHOOSE x \in S : \A y \in S : x <= y
       IN  <<lo>> \o Ascending(S \ {lo})

\* The update infos initSegmentUpdateInfo can build for the cell: no
\* segment, or segment 0 with any subset of its synapses active; at most
\* one sampled cell, of another column and not yet a source of the segment.
ApplyInfos(cell) ==
  LET noSeg == {[segmentID |-> -1, activeSynapseIDs |-> << >>]}
      onSeg == {[segmentID |-> 0, activeSynapseIDs |-> Ascending(ids)] :
                  ids \in SUBSET (0..(Len(cell.segments[1].synapses) - 1))}
      Sources(t) == IF t.segmentID < 0 THEN {}
                    ELSE {cell.segments[1].synapses[j].inputSource :
                            j \in 1..Len(cell.segments[1].synapses)}
      All == {[segmentID |-> t.segmentID,
               numPredictionSteps |-> n,
               activeSynapseIDs |-> t.activeSynapseIDs,
               numActiveSyns |-> Len(t.activeSynapseIDs),
               learningCells |-> ss,
               numLearningCells |-> Len(ss),
               addNewSynapses |-> addNew] :
                t \in noSeg \cup onSeg, n \in {1, 2}, addNew \in BOOLEAN,
                ss \in {<< >>, << <<3, 0>> >>}}
  IN  {info \in All :
         /\ Range(info.learningCells) \cap Sources(info) = {}
         /\ (info.numLearningCells > 0 => info.addNewSynapses)}

InitApply ==
  /\ region = ApplyRegion
  /\ colActive = [i \in ColIds(ApplyRegion) |-> FALSE]
  /\ columns = [i \in ColIds(ApplyRegion) |-> initColumn]
  /\ pending = {}
  /\ sequential = << >>
  /\ inputData = [i \in ColIds(ApplyRegion) |-> 0]
  /\ pc = "idle" /\ idx = 0 /\ history = << >>
  /\ feed = AnyOf({}, 0)
  /\ HarnessIdle
  /\ \E p1 \in ApplyPermanences, p2 \in ApplyPermanences :
       LET c1 == createCellSegment(initCell, ApplyRegion.segActiveThreshold)
           sg == createSynapse(createSynapse(c1.segments[1], <<1, 0>>, p1), <<2, 0>>, p2)
           owner == [c1 EXCEPT !.segments[1] = sg]
       IN  \E info \in ApplyInfos(owner) :
             cells = [i \in ColIds(ApplyRegion) |-> [c \in CellIds(ApplyRegion) |->
                        IF i = 0 THEN [owner EXCEPT !.segmentUpdates = <<info>>]
                                 ELSE initCell]]

ApplyCall(positiveReinforcement) ==
  /\ pc = "idle"
  /\ calls < MaxApplyCalls
  /\ cells' = [cells EXCEPT ![0][0] =
                 applySegmentUpdates(cells[0][0], cells[0][0].segmentUpdates[1],
                                     positiveReinforcement, region.segActiveThreshold)]
  /\ pc' = IF positiveReinforcement THEN "appliedPositive" ELSE "appliedNegative"
  /\ calls' = calls + 1
  /\ UNCHANGED <<region, columns, pending, sequential, colActive, inputData, idx, history, feed, syn, seg, sample, lookup>>

ApplyPositive == ApplyCall(TRUE)
ApplyNegative == ApplyCall(FALSE)

\* The applied info is deleted and the next one is built.
ApplyNextInfo ==
  /\ pc \in {"appliedPositive", "appliedNegative"}
  /\ \E info \in ApplyInfos(cells[0][0]) :
       cells' = [cells EXCEPT ![0][0].segmentUpdates = <<info>>]
  /\ pc' = "idle"
  /\ UNCHANGED <<region, columns, pending, sequential, colActive, inputData, idx, history, feed, syn, seg, calls, sample, lookup>>

NextApply == ApplyPositive \/ ApplyNegative \/ ApplyNextInfo

SpecApply == InitApply /\ [][NextApply]_vars

\* The synapses (segment, synapse; 1-based) the info snapshotted as active.
Snapshotted(info) ==
  {<<info.segmentID + 1, info.activeSynapseIDs[u] + 1>> : u \in 1..info.numActiveSyns}

SampleRegions == {newRegionHardcoded(4, 1, 0, 1, 1, n) : n \in {2, 3}}

InitSample ==
  /\ \E r \in SampleRegions :
       /\ Constructed(r)
       /\ feed = After(RepeatPrefix, RepeatInputs, Len(RepeatPrefix) + MaxStepsSample)
  /\ HarnessIdle

SpecSample == InitSample /\ [][Next]_vars

\* The cells eligible as new sources for an update of cell ref on segment
\* segmentID: in the learning state in the previous step, outside ref's
\* column, and not yet a source of the segment.
CandidatePool(ref, segmentID) ==
  LET sources == IF segmentID < 0 THEN {}
                 ELSE {SrcCell(cells, ref).segments[segmentID + 1].synapses[j].inputSource :
                         j \in 1..Len(SrcCell(cells, ref).segments[segmentID + 1].synapses)}
  IN  {other \in AllCells : /\ SrcCell(cells, other).wasLearning
                            /\ other[1] # ref[1]
                            /\ other \notin sources}

(***************************************************************************)
(* C15.  Every SegmentUpdateInfo is enqueued with as many sampled learning *)
(* cells as min(|pool|, max(0, newSynapseCount - snapshotted active        *)
(* synapses)) when it has a target segment, min(|pool|, newSynapseCount)   *)
(* when it has none, and 0 when addNewSynapses is false.                   *)
(***************************************************************************)
C15_SampleSize ==
  [][\A ref \in AllCells :
       LET added == EnqueuedBy(SrcCell(cells, ref), SrcCell(cells', ref))
       IN  \A u \in 1..Len(added) :
             LET info == added[u]
                 pool == Cardinality(CandidatePool(ref, info.segmentID))
             IN  /\ Len(info.learningCells) = info.numLearningCells
                 /\ info.numLearningCells =
                      IF ~info.addNewSynapses THEN 0
                      ELSE IF info.segmentID >= 0
                        THEN Min(pool, Max(0, region.newSynapseCount
                                                - Len(info.activeSynapseIDs)))
                      ELSE Min(pool, region.newSynapseCount)]_vars

\* A queue holds an update on a segment whose snapshotted synapses leave
\* room for fewer new synapses than the pool offers, and another queue holds
\* an update without a segment that sampled newSynapseCount cells.
C15_Witness ==
  /\ \E ref \in AllCells : \E u \in 1..Len(SrcCell(cells, ref).segmentUpdates) :
       LET info == SrcCell(cells, ref).segmentUpdates[u]
       IN  /\ info.segmentID >= 0 /\ info.addNewSynapses
           /\ Len(info.activeSynapseIDs) > 0
           /\ info.numLearningCells
                < Min(Cardinality(CandidatePool(ref, info.segmentID)),
                      region.newSynapseCount)
  /\ \E ref \in AllCells : \E u \in 1..Len(SrcCell(cells, ref).segmentUpdates) :
       LET info == SrcCell(cells, ref).segmentUpdates[u]
       IN  /\ info.segmentID < 0 /\ info.addNewSynapses
           /\ info.numLearningCells = region.newSynapseCount

(***************************************************************************)
(* Three columns of one cell in a row, with localityRadius 0 or 1: columns *)
(* 0 and 2 are two columns apart.                                          *)
(***************************************************************************)
LocalRegions == {newRegionHardcoded(3, 1, radius, 1, 1, 2) : radius \in {0, 1}}

InitLocal ==
  /\ \E r \in LocalRegions :
       /\ Constructed(r)
       /\ feed = AnyOf([ColIds(r) -> {0, 1}], MaxStepsLocal)
  /\ HarnessIdle

SpecLocal == InitLocal /\ [][Next]_vars

\* Distance of two columns in the column grid.
ColumnDistance(i, j) ==
  LET dx == (i % region.width) - (j % region.width)
      dy == (i \div region.width) - (j \div region.width)
  IN  Max(Max(dx, -dx), Max(dy, -dy))

(***************************************************************************)
(* C16.  With localityRadius > 0 every sampled learning cell of a          *)
(* SegmentUpdateInfo, and so every source of a distal synapse, lies in a   *)
(* column within localityRadius of the owning cell's column; with          *)
(* localityRadius 0 any column but the owner's is eligible.                *)
(***************************************************************************)
C16_SourcesWithinLocalityRadius ==
  region.localityRadius > 0
  => \A ref \in AllCells :
       LET cell == SrcCell(cells, ref)
       IN  /\ \A u \in 1..Len(cell.segmentUpdates) :
                \A other \in Range(cell.segmentUpdates[u].learningCells) :
                  ColumnDistance(ref[1], other[1]) <= region.localityRadius
           /\ \A k \in 1..Len(cell.segments) : \A j \in 1..Len(cell.segments[k].synapses) :
                ColumnDistance(ref[1], cell.segments[k].synapses[j].inputSource[1])
                  <= region.localityRadius

\* The raw active-synapse count of a segment at the time reference.
RawCount(sg, previous) ==
  IF previous THEN sg.numPrevActiveAllSyns ELSE sg.numActiveAllSyns

\* result (a segment index, -1 for none) is a segment of the cell of the
\* given predictionSteps with the largest raw count among those with at
\* least floor active synapses, and none when there is no such segment.
BestOfFloor(cell, steps, previous, floor, result) ==
  LET cand == {k \in 1..Len(cell.segments) :
                 /\ cell.segments[k].predictionSteps = steps
                 /\ RawCount(cell.segments[k], previous) >= floor}
  IN  IF cand = {} THEN result = -1
      ELSE /\ (result + 1) \in cand
           /\ \A k \in cand : RawCount(cell.segments[k], previous)
                                <= RawCount(cell.segments[result + 1], previous)

(***************************************************************************)
(* C17.  getBestMatchingSegment(cell, steps, previous) returns a segment   *)
(* of predictionSteps = steps with the maximum raw active-synapse count at *)
(* the time reference provided that count is at least 1, and none iff no   *)
(* such segment has at least 1 active synapse.                             *)
(***************************************************************************)
C17_BestMatchAtLeastOne ==
  \A ref \in AllCells : \A steps \in 1..MAX_TIME_STEPS : \A previous \in BOOLEAN :
    BestOfFloor(SrcCell(cells, ref), steps, previous, 1,
                getBestMatchingSegment(SrcCell(cells, ref), steps, previous))

\* C17 as amended: the count has to be above
\* MIN_SYNAPSES_PER_SEGMENT_THRESHOLD, that is at least 2; none is returned
\* iff no segment of that many steps has at least 2 active synapses.
C17_BestMatchAboveThreshold ==
  \A ref \in AllCells : \A steps \in 1..MAX_TIME_STEPS : \A previous \in BOOLEAN :
    BestOfFloor(SrcCell(cells, ref), steps, previous,
                MIN_SYNAPSES_PER_SEGMENT_THRESHOLD + 1,
                getBestMatchingSegment(SrcCell(cells, ref), steps, previous))

\* One cell has a segment returned for its two synapses active in the
\* previous step only, another has a segment with a single active synapse
\* and gets none.
C17_Witness ==
  /\ \E ref \in AllCells :
       LET cell == SrcCell(cells, ref)
           best == getBestMatchingSegment(cell, 1, TRUE)
       IN  /\ best >= 0
           /\ cell.segments[best + 1].numPrevActiveAllSyns >= 2
           /\ cell.segments[best + 1].numActiveAllSyns = 0
  /\ \E ref \in AllCells :
       LET cell == SrcCell(cells, ref)
       IN  /\ getBestMatchingSegment(cell, 1, TRUE) = -1
           /\ \E k \in 1..Len(cell.segments) :
                /\ cell.segments[k].predictionSteps = 1
                /\ cell.segments[k].numPrevActiveAllSyns = 1

(***************************************************************************)
(* The region of SpecPair fed so that the second cell of column 4 comes to *)
(* own the segment on columns 2 and 3, which then are active alone.        *)
(***************************************************************************)
OwnerPrefix ==
  <<Bits(PairRegion, {0, 1}), Bits(PairRegion, {4}), Bits(PairRegion, {}),
    Bits(PairRegion, {2, 3}), Bits(PairRegion, {4}), Bits(PairRegion, {2, 3})>>

InitOwner ==
  /\ Constructed(PairRegion)
  /\ feed = After(OwnerPrefix, PairInputs, Len(OwnerPrefix) + MaxStepsOwner)
  /\ HarnessIdle

SpecOwner == InitOwner /\ [][Next]_vars

\* result = [cell, segID] is what the claim says of column i: the owner of
\* the column's best-matching segment with that segment's index, or, when no
\* cell has a matching segment, the lowest-indexed cell with the fewest
\* segments and segID -1.
BestCellOfColumn(i, steps, previous, result) ==
  LET Best(c) == getBestMatchingSegment(cells[i][c], steps, previous)
      matching == {c \in CellIds(region) : Best(c) >= 0}
      Count(c) == RawCount(cells[i][c].segments[Best(c) + 1], previous)
      Fewer(c, d) == Len(cells[i][c].segments) < Len(cells[i][d].segments)
  IN  /\ result.cell \in CellIds(region)
      /\ IF matching # {}
           THEN /\ result.cell \in matching
                /\ result.segID = Best(result.cell)
                /\ \A c \in matching : Count(c) <= Count(result.cell)
           ELSE /\ result.segID = -1
                /\ \A c \in CellIds(region) :
                     /\ ~Fewer(c, result.cell)
                     /\ (c < result.cell => Fewer(result.cell, c))

(***************************************************************************)
(* C18.  getBestMatchingCell returns the cell owning the column's          *)
(* best-matching segment with that segment's index whenever a cell of the  *)
(* column has a matching segment, and otherwise segment id -1 with the     *)
(* cell that has the fewest segments, the lowest-indexed one on ties.      *)
(***************************************************************************)
C18_BestMatchingCell ==
  \A i \in ColIds(region) : \A steps \in 1..MAX_TIME_STEPS : \A previous \in BOOLEAN :
    BestCellOfColumn(i, steps, previous,
                     getBestMatchingCell(cells[i], region.cellsPerCol, -1,
                                         steps, previous))

\* In one column the second cell owns the best-matching segment, in another
\* no cell matches and the second cell has fewer segments than the first.
C18_Witness ==
  /\ \E i \in ColIds(region) :
       LET b == getBestMatchingCell(cells[i], region.cellsPerCol, -1, 1, TRUE)
       IN  b.segID >= 0 /\ b.cell = 1
  /\ \E i \in ColIds(region) :
       LET b == getBestMatchingCell(cells[i], region.cellsPerCol, -1, 1, TRUE)
       IN  /\ b.segID = -1 /\ b.cell = 1
           /\ Len(cells[i][0].segments) > 0

\* The columns the claim counts: the active ones, and those with a cell that
\* was predicting in the last step through a sequence segment active then.
ActiveColumns == {i \in ColIds(region) : colActive[i]}
PredictedColumns == {i \in ColIds(region) : PredictedColumn(cells, i)}

(***************************************************************************)
(* C19.  getLastAccuracy returns activation accuracy AP/A and prediction   *)
(* accuracy AP/P, with A the number of active columns, P the number of     *)
(* columns with a cell that was predicting last step through a sequence    *)
(* segment active last step, AP the number of columns in both; each value  *)
(* is 0 when its denominator is 0.                                         *)
(***************************************************************************)
C19_AccuracyRatios ==
  LET A == Cardinality(ActiveColumns)
      P == Cardinality(PredictedColumns)
      AP == Cardinality(ActiveColumns \cap PredictedColumns)
      acc == getLastAccuracy(region, colActive, cells)
  IN  /\ IF A = 0 THEN IsZero(acc.activationAcc) ELSE acc.activationAcc = <<AP, A>>
      /\ IF P = 0 THEN IsZero(acc.predictionAcc) ELSE acc.predictionAcc = <<AP, P>>

\* runOnce has returned with some but not all active columns predicted, or
\* with some but not all predicted columns active.
C19_Witness ==
  /\ pc = "idle"
  /\ ActiveColumns \cap PredictedColumns # {}
  /\ ActiveColumns # PredictedColumns
  /\ ~IsOne(getLastAccuracy(region, colActive, cells).activationAcc)
       \/ ~IsOne(getLastAccuracy(region, colActive, cells).predictionAcc)

(***************************************************************************)
(* C20.  In hardcoded mode performSpatialPooling sets every column's       *)
(* isActive to whether its input bit is 1, whatever it was before, and     *)
(* leaves the columns' overlap, boost and duty cycles and all cell and     *)
(* segment state as they were.                                             *)
(***************************************************************************)
C20_HardcodedSpatialPooling ==
  [][pc = "spatial" =>
       /\ \A i \in ColIds(region) : colActive'[i] <=> (inputData[i] = 1)
       /\ columns' = columns
       /\ cells' = cells]_vars

\* performSpatialPooling has just run in a step whose input switches one
\* column off that was active and another one on that was not.
C20_Witness ==
  /\ pc = "phase1" /\ idx = 0
  /\ Len(history) >= 2
  /\ \E i \in ColIds(region), j \in ColIds(region) :
       /\ history[Len(history) - 1][i] = 1 /\ ~colActive[i]
       /\ history[Len(history) - 1][j] = 0 /\ colActive[j]
  /\ \E ref \in AllCells : Len(SrcCell(cells, ref).segments) > 0

\* The previous-step fields of a cell and of its first n segments.
PreviousFlags(cell) == <<cell.wasActive, cell.wasPredicted, cell.wasLearning>>
CurrentFlags(cell) == <<cell.isActive, cell.isPredicting, cell.isLearning>>
PreviousOfSegments(cell, n) ==
  [k \in 1..n |-> <<cell.segments[k].wasActive,
                    cell.segments[k].numPrevActiveConnectedSyns,
                    cell.segments[k].numPrevActiveAllSyns>>]
CurrentOfSegments(cell, n) ==
  [k \in 1..n |-> <<cell.segments[k].isActive,
                    cell.segments[k].numActiveConnectedSyns,
                    cell.segments[k].numActiveAllSyns>>]

(***************************************************************************)
(* C21.  runOnce first advances every cell and segment to the next time    *)
(* step, then runs spatial pooling, then temporal pooling; when it returns *)
(* each cell's wasActive, wasPredicted, wasLearning are the isActive,      *)
(* isPredicting, isLearning the cell had at the call, and each segment's   *)
(* wasActive and previous counts are its isActive and current counts at    *)
(* the call.  Stated step by step: the first step of runOnce copies the    *)
(* current values of the call into the previous ones, and no later step of *)
(* the same runOnce writes a previous value of a cell or of a segment that *)
(* existed at the call.                                                    *)
(***************************************************************************)
C21_PreviousIsCurrentAtCall ==
  [][/\ pc = "runOnce" =>
          /\ pc' = "spatial"
          /\ \A ref \in AllCells :
               LET old == SrcCell(cells, ref)
                   new == SrcCell(cells', ref)
               IN  /\ PreviousFlags(new) = CurrentFlags(old)
                   /\ Len(new.segments) = Len(old.segments)
                   /\ PreviousOfSegments(new, Len(old.segments))
                        = CurrentOfSegments(old, Len(old.segments))
     /\ pc = "spatial" => pc' = "phase1"
     /\ pc \in {"phase1", "phase2", "phase3"} => pc' \in {"phase1", "phase2", "phase3", "idle"}
     /\ pc \in {"spatial", "phase1", "phase2", "phase3"} =>
          \A ref \in AllCells :
            LET old == SrcCell(cells, ref)
                new == SrcCell(cells', ref)
            IN  /\ PreviousFlags(new) = PreviousFlags(old)
                /\ Len(new.segments) >= Len(old.segments)
                /\ PreviousOfSegments(new, Len(old.segments))
                     = PreviousOfSegments(old, Len(old.segments))
     /\ pc = "idle" => cells' = cells]_vars

\* runOnce has returned; a cell that was active, predicting or learning at
\* the call no longer is, and a segment that was active at the call is not.
C21_Witness ==
  /\ pc = "idle" /\ Len(history) >= 2
  /\ \E ref \in AllCells :
       LET cell == SrcCell(cells, ref)
       IN  /\ cell.wasActive /\ cell.wasLearning /\ ~cell.isActive
           /\ cell.isPredicting
  /\ \E ref \in AllCells :
       LET cell == SrcCell(cells, ref)
       IN  /\ cell.wasPredicted /\ ~cell.isPredicting
           /\ \E k \in 1..Len(cell.segments) :
                /\ cell.segments[k].wasActive /\ ~cell.segments[k].isActive
                /\ cell.segments[k].numPrevActiveAllSyns > cell.segments[k].numActiveAllSyns

(***************************************************************************)
(* The parallel execution of temporal pooling (performTemporalPooling-     *)
(* Parallel): each phase is a set of tasks, one per column, run in any     *)
(* order; the tasks of Phase 2 and Phase 3 visit the cells of their column *)
(* in index order and are interleaved cell by cell.  A phase starts when   *)
(* all tasks of the phase before have ended (the barrier).  The variable   *)
(* sequential holds the cells as the sequential loop of the running phase  *)
(* leaves them from the same start.                                        *)
(***************************************************************************)
ParallelRegions ==
  {newRegionHardcoded(4, 1, 0, 1, 1, nsc) : nsc \in {2, 3}}

\* Columns 0, 1, 2, then column 3, then columns 0, 1, 2 again: a cell of
\* column 3 grows a sequence segment on cells of the first columns and is
\* predicted when the free steps begin.
ParallelPrefix(r) == <<Bits(r, {0, 1, 2}), Bits(r, {3}), Bits(r, {0, 1, 2})>>

InitParallel ==
  /\ \E r \in ParallelRegions :
       /\ Constructed(r)
       /\ feed = After(ParallelPrefix(r), SparseInputs(r),
                       Len(ParallelPrefix(r)) + MaxStepsParallel)
  /\ HarnessIdle

\* The outcomes of the Phase 1 loop over the columns i, i+1, ... in index
\* order.
RECURSIVE SequentialPhase1(_, _, _, _)
SequentialPhase1(cs, r, act, i) ==
  IF i >= NumCols(r) THEN {cs}
  ELSE UNION {SequentialPhase1(x, r, act, i + 1) : x \in Phase1Task(cs, r, act, i)}

\* The outcomes of the Phase 2 loop over the cells k, k+1, ... in index order.
RECURSIVE SequentialPhase2(_, _, _)
SequentialPhase2(cs, r, k) ==
  IF k >= NumCols(r) * r.cellsPerCol THEN {cs}
  ELSE UNION {SequentialPhase2(x, r, k + 1) :
                x \in Phase2Task(cs, r, k \div r.cellsPerCol, k % r.cellsPerCol)}

\* The tasks of a phase split into steps: whole columns in Phase 1, the
\* cells of each column in Phase 2 and Phase 3.
ParallelItems(phase) == IF phase = "phase1" THEN ColIds(region) ELSE AllCells

\* The next cell a column's task visits is its lowest cell not yet visited.
NextOfTask(ref) ==
  ref \in pending /\ \A c \in CellIds(region) : c < ref[2] => <<ref[1], c>> \notin pending

\* The cells after a Phase 3 task has visited cell c of column i.
Phase3Task(cs, r, i, c) ==
  IF ~r.temporalLearning THEN cs
  ELSE [cs EXCEPT ![i][c] = Phase3Cell(cs[i][c], r)]

\* A phase begins: all its tasks are submitted.
ParallelBegin ==
  /\ pc \in {"phase1", "phase2", "phase3"}
  /\ pending = {}
  /\ pending' = ParallelItems(pc)
  /\ sequential' \in (IF pc = "phase1"
                        THEN SequentialPhase1(cells, region, colActive, 0)
                      ELSE IF pc = "phase2"
                        THEN SequentialPhase2(cells, region, 0)
                        ELSE {Phase3Loop(cells, region)})
  /\ UNCHANGED <<region, columns, colActive, cells, inputData, pc, idx, history, feed, syn, seg, calls, sample, lookup>>

\* Phase1MapTask of column i runs.
ParallelPhase1Task ==
  /\ pc = "phase1"
  /\ \E i \in pending :
       /\ cells' \in Phase1Task(cells, region, colActive, i)
       /\ pending' = pending \ {i}
       /\ pc' = IF pending' = {} THEN "phase2" ELSE "phase1"
  /\ UNCHANGED <<region, columns, sequential, colActive, inputData, idx, history, feed, syn, seg, calls, sample, lookup>>

\* Phase2MapTask of some column visits its next cell.
ParallelPhase2Task ==
  /\ pc = "phase2"
  /\ \E ref \in pending :
       /\ NextOfTask(ref)
       /\ cells' \in Phase2Task(cells, region, ref[1], ref[2])
       /\ pending' = pending \ {ref}
       /\ pc' = IF pending' = {} THEN "phase3" ELSE "phase2"
  /\ UNCHANGED <<region, columns, sequential, colActive, inputData, idx, history, feed, syn, seg, calls, sample, lookup>>

\* Phase3MapTask of some column visits its next cell; the last one ends
\* runOnce.
ParallelPhase3Task ==
  /\ pc = "phase3"
  /\ \E ref \in pending :
       /\ NextOfTask(ref)
       /\ cells' = Phase3Task(cells, region, ref[1], ref[2])
       /\ pending' = pending \ {ref}
       /\ pc' = IF pending' = {} THEN "idle" ELSE "phase3"
  /\ UNCHANGED <<region, columns, sequential, colActive, inputData, idx, history, feed, syn, seg, calls, sample, lookup>>

NextParallel ==
  \/ UpdateInput
  \/ NextColumnTimeSteps
  \/ performSpatialPooling
  \/ ParallelBegin
  \/ ParallelPhase1Task
  \/ ParallelPhase2Task
  \/ ParallelPhase3Task

SpecParallel == InitParallel /\ [][NextParallel]_vars

\* The sampled learning cells of the updates that both cell arrays hold at
\* the same place of the same queue are the same.
SameSamples(a, b) ==
  \A i \in DOMAIN a : \A c \in DOMAIN a[i] :
    \A u \in 1..Min(Len(a[i][c].segmentUpdates), Len(b[i][c].segmentUpdates)) :
      a[i][c].segmentUpdates[u].learningCells
        = b[i][c].segmentUpdates[u].learningCells

\* A phase has just ended: no task is left and the next phase has not begun.
AtBarrier ==
  /\ pending = {}
  /\ pc \in {"phase2", "phase3", "idle"}
  /\ sequential # << >>

(***************************************************************************)
(* C22.  When the tasks of a temporal-pooling phase have all run, in       *)
(* whatever order and interleaving, the cells (flags, pending queues,      *)
(* segments, synapses, permanences) are those the sequential loop in index *)
(* order yields from the same start with the same sampled learning cells.  *)
(***************************************************************************)
C22_ParallelMatchesSequential ==
  AtBarrier => (SameSamples(cells, sequential) => cells = sequential)

\* Phase 1 has ended with the samples of the sequential loop: one cell was
\* made learning as a predicted cell, the cell of another column was made
\* learning as best matching cell and enqueued an update with a sampled
\* learning cell.
C22_Witness ==
  /\ AtBarrier /\ pc = "phase2"
  /\ SameSamples(cells, sequential)
  /\ \E ref \in AllCells :
       LET cell == cells[ref[1]][ref[2]]
       IN  /\ cell.isLearning /\ ~cell.wasPredicted
           /\ cell.segmentUpdates # << >>
           /\ cell.segmentUpdates[Len(cell.segmentUpdates)].learningCells # << >>
  /\ \E ref \in AllCells :
       cells[ref[1]][ref[2]].isLearning /\ cells[ref[1]][ref[2]].wasPredicted

\* The column a step of a task belongs to.
ItemColumn(phase, item) == IF phase = "phase1" THEN item ELSE item[1]

\* The outcomes of the step item of a task of the given phase on the cells cs.
TaskOutcomes(phase, cs, item) ==
  IF phase = "phase1" THEN Phase1Task(cs, region, colActive, item)
  ELSE IF phase = "phase2" THEN Phase2Task(cs, region, item[1], item[2])
  ELSE {Phase3Task(cs, region, item[1], item[2])}

\* A cell that agrees with the given one on wasActive and wasLearning, and
\* on isActive if keepActive; it has no segment and no update, and fill in
\* its other flags.
Unread(cell, keepActive, fill) ==
  [initCell EXCEPT !.wasActive = cell.wasActive,
                   !.wasLearning = cell.wasLearning,
                   !.isActive = IF keepActive THEN cell.isActive ELSE fill,
                   !.isPredicting = fill, !.wasPredicted = fill,
                   !.isLearning = fill,
                   !.predictionSteps = IF fill THEN 1 ELSE 0]

\* The cells cs with every cell outside column i replaced as above.
OtherColumnsUnread(cs, i, keepActive, fill) ==
  [j \in DOMAIN cs |->
     [c \in DOMAIN cs[j] |->
        IF j = i THEN cs[j][c] ELSE Unread(cs[j][c], keepActive, fill)]]

\* A step of a task leaves the cells of the other columns as they are, and
\* what it makes of its own column is what it makes of it when the other
\* columns keep nothing but wasActive and wasLearning (and isActive in the
\* phases of activeRead).
TaskFrame(activeRead) ==
  (pc \in {"phase1", "phase2", "phase3"} /\ pending # {} /\ pending' # pending) =>
    LET item == CHOOSE x \in pending : x \notin pending'
        i == ItemColumn(pc, item)
    IN  /\ \A j \in ColIds(region) \ {i} : cells'[j] = cells[j]
        /\ \A fill \in BOOLEAN :
             \E x \in TaskOutcomes(pc,
                        OtherColumnsUnread(cells, i, pc \in activeRead, fill),
                        item) :
               x[i] = cells'[i]

(***************************************************************************)
(* C23.  As claimed: in every temporal-pooling phase the task of a column  *)
(* writes only cells of its column and reads of the other columns only     *)
(* the flags wasActive and wasLearning of their cells.                     *)
(***************************************************************************)
C23_ReadsOnlyPreviousFlags == [][TaskFrame({})]_vars

(***************************************************************************)
(* C23, amended.  In every temporal-pooling phase the task of a column     *)
(* writes only cells of its column (flags, predictionSteps, queues,        *)
(* segments, synapses, permanences); of the other columns it reads only    *)
(* the flags wasActive and wasLearning of their cells and, in Phase 2,     *)
(* their isActive of the current step.                                     *)
(***************************************************************************)
C23_TaskFrame == [][TaskFrame({"phase2"})]_vars

\* Phase 2 is under way: a visited cell was made predicting by a segment
\* with an active synapse on a cell of another column, and enqueued
\* updates; another cell is still to be visited.
C23_Witness ==
  /\ pc = "phase2" /\ pending # {}
  /\ \E ref \in AllCells \ pending :
       LET cell == cells[ref[1]][ref[2]]
       IN  /\ cell.isPredicting /\ cell.segmentUpdates # << >>
           /\ \E k \in 1..Len(cell.segments) :
                /\ cell.segments[k].isActive
                /\ \E n \in 1..Len(cell.segments[k].synapses) :
                     LET src == cell.segments[k].synapses[n].inputSource
                     IN  src[1] # ref[1] /\ cells[src[1]][src[2]].isActive

\* The cell when the loop of applyCellSegmentUpdates reaches the update at
\* position u: the updates before it have been applied.
RECURSIVE AppliedBefore(_, _, _, _)
AppliedBefore(cell, u, positiveReinforcement, segActiveThreshold) ==
  IF u <= 1 THEN cell
  ELSE applySegmentUpdates(
         AppliedBefore(cell, u - 1, positiveReinforcement, segActiveThreshold),
         cell.segmentUpdates[u - 1], positiveReinforcement, segActiveThreshold)

\* The info denotes, on the cell now, a segment and synapses that exist and
\* that are those it denoted on the cell as it was at first.
InfoDenotes(first, now, info) ==
  /\ info.segmentID = -1 \/ info.segmentID \in 0..(Len(first.segments) - 1)
  /\ info.segmentID >= 0 =>
       /\ Len(now.segments) >= Len(first.segments)
       /\ info.numActiveSyns = Len(info.activeSynapseIDs)
       /\ \A k \in 1..Len(info.activeSynapseIDs) :
            LET id == info.activeSynapseIDs[k]
            IN  /\ id \in 0..(Len(first.segments[info.segmentID + 1].synapses) - 1)
                /\ id \in 0..(Len(now.segments[info.segmentID + 1].synapses) - 1)
                /\ now.segments[info.segmentID + 1].synapses[id + 1].inputSource
                     = first.segments[info.segmentID + 1].synapses[id + 1].inputSource

(***************************************************************************)
(* C24.  A queued SegmentUpdateInfo denotes the same target segment and    *)
(* the same snapshotted synapses from its enqueueing until its             *)
(* application: after every step, and at every iteration of the apply loop *)
(* (positive or negative) that the queue may go through, its segmentID is  *)
(* -1 or the index of an existing segment of its cell and its snapshotted  *)
(* indices are indices of synapses of that segment with the sources they   *)
(* had; and while the queue is kept, the infos in it keep their target and *)
(* snapshot.                                                               *)
(***************************************************************************)
C24_QueuedInfoDenotesSameTarget ==
  [][\A ref \in AllCells :
       LET old == cells[ref[1]][ref[2]]
           new == cells'[ref[1]][ref[2]]
       IN  /\ \A u \in 1..Len(new.segmentUpdates) : \A positive \in BOOLEAN :
                InfoDenotes(new,
                            AppliedBefore(new, u, positive, region.segActiveThreshold),
                            new.segmentUpdates[u])
           /\ new.segmentUpdates # << >> =>
                /\ Len(new.segmentUpdates) >= Len(old.segmentUpdates)
                /\ \A u \in 1..Len(old.segmentUpdates) :
                     /\ new.segmentUpdates[u].segmentID = old.segmentUpdates[u].segmentID
                     /\ new.segmentUpdates[u].activeSynapseIDs
                          = old.segmentUpdates[u].activeSynapseIDs
                     /\ InfoDenotes(old, new, old.segmentUpdates[u])]_vars

\* A queue holds an update that adds synapses to a segment and, behind it,
\* an update with a snapshot of synapses of the same segment; a queue holds
\* an update that creates a segment and, behind it, an update with a
\* snapshot of an existing segment.
C24_Witness ==
  /\ \E ref \in AllCells :
       LET q == cells[ref[1]][ref[2]].segmentUpdates
       IN  \E u \in 1..Len(q) : \E v \in (u+1)..Len(q) :
             /\ q[u].segmentID >= 0 /\ q[u].numLearningCells > 0
             /\ q[v].segmentID = q[u].segmentID
             /\ q[v].activeSynapseIDs # << >>
  /\ \E ref \in AllCells :
       LET q == cells[ref[1]][ref[2]].segmentUpdates
       IN  \E u \in 1..Len(q) : \E v \in (u+1)..Len(q) :
             /\ q[u].segmentID = -1 /\ q[u].numLearningCells > 0
             /\ q[v].segmentID >= 0
             /\ q[v].activeSynapseIDs # << >>

(***************************************************************************)
(* C25.  No step of any runOnce call, and nothing between two calls,       *)
(* lowers a cell's number of distal segments or a segment's number of      *)
(* synapses, or changes the source cell of a synapse that exists.          *)
(***************************************************************************)
C25_StructureOnlyGrows ==
  [][\A ref \in AllCells :
       LET old == cells[ref[1]][ref[2]].segments
           new == cells'[ref[1]][ref[2]].segments
       IN  /\ Len(new) >= Len(old)
           /\ \A k \in 1..Len(old) :
                /\ Len(new[k].synapses) >= Len(old[k].synapses)
                /\ \A n \in 1..Len(old[k].synapses) :
                     new[k].synapses[n].inputSource
                       = old[k].synapses[n].inputSource]_vars

\* runOnce has returned; a cell has two segments, and some segment has more
\* synapses than one update adds, so that it grew after its creation.
C25_Witness ==
  /\ pc = "idle"
  /\ \E ref \in AllCells : Len(cells[ref[1]][ref[2]].segments) >= 2
  /\ \E ref \in AllCells :
       \E k \in 1..Len(cells[ref[1]][ref[2]].segments) :
          Len(cells[ref[1]][ref[2]].segments[k].synapses) > region.newSynapseCount

(***************************************************************************)
(* A hardcoded region fed the same input vector on every step.             *)
(***************************************************************************)
ConstantRegions ==
  {newRegionHardcoded(3, 1, 0, cpc, 1, 2) : cpc \in {1, 2}}

InitConstant ==
  /\ \E r \in ConstantRegions : \E d \in [ColIds(r) -> {0, 1}] :
       Constructed(r) /\ feed = CycleOf(<<d>>, MaxStepsConstant)
  /\ HarnessIdle

SpecConstant == InitConstant /\ [][Next]_vars

\* The number of synapses of each segment of each cell.
Shape(cs) ==
  [i \in DOMAIN cs |-> [c \in DOMAIN cs[i] |->
     [k \in 1..Len(cs[i][c].segments) |-> Len(cs[i][c].segments[k].synapses)]]]

(***************************************************************************)
(* C26.  In a hardcoded region with temporal learning on that is fed the   *)
(* same input vector on every step, structural change stops: the last      *)
(* runOnce of a run of MaxStepsConstant calls creates no distal segment    *)
(* and no synapse; and no runOnce changes a column's boost,                *)
(* activeDutyCycle or overlapDutyCycle.                                    *)
(***************************************************************************)
C26_ConstantInputStabilises ==
  [][/\ (Steps = MaxStepsConstant /\ pc # "idle") => Shape(cells') = Shape(cells)
     /\ columns' = columns]_vars

(***************************************************************************)
(* Construction of a region by newRegionHardcoded or newRegion with any    *)
(* arguments, the invalid ones included.                                   *)
(***************************************************************************)
GridSizes == {-1, 0, 1, 2}          \* widths and heights passed in
Thresholds == {-1, 0, 1, 2}         \* segActiveThreshold values passed in

\* newRegion(inputSizeX, inputSizeY, colGridSizeX, colGridSizeY,
\*           pctInputPerCol, pctMinOverlap, localityRadius, pctLocalActivity,
\*           cellsPerCol, segActiveThreshold, newSynapseCount): the column
\* grid has the size asked for (the float parameters play no part here).
newRegion(inputSizeX, inputSizeY, colGridSizeX, colGridSizeY, localityRadius, cellsPerCol, segActiveThreshold, newSynapseCount) ==
  [width |-> colGridSizeX, height |-> colGridSizeY,
   localityRadius |-> localityRadius, cellsPerCol |-> cellsPerCol,
   segActiveThreshold |-> segActiveThreshold,
   newSynapseCount |-> newSynapseCount,
   spatialLearning |-> FALSE, temporalLearning |-> TRUE]

\* No region has been constructed yet.
InitConstruct ==
  /\ region = newRegionHardcoded(0, 0, 0, 0, 0, 0)
  /\ colActive = << >>
  /\ columns = << >>
  /\ cells = << >>
  /\ pending = {}
  /\ sequential = << >>
  /\ inputData = << >>
  /\ pc = "unconstructed"
  /\ idx = 0
  /\ history = << >>
  /\ feed = AnyOf({}, 0)
  /\ HarnessIdle

\* The constructor returns region r: the column loop has run initColumn on
\* every column of the grid (none if a dimension is not positive).
Returns(r, input) ==
  /\ region' = r
  /\ colActive' = [i \in ColIds(r) |-> FALSE]
  /\ columns' = [i \in ColIds(r) |-> initColumn]
  /\ cells' = [i \in ColIds(r) |-> [c \in CellIds(r) |-> initCell]]
  /\ inputData' = input
  /\ pc' = "idle"
  /\ UNCHANGED <<pending, sequential, idx, history, feed, syn, seg, calls, sample, lookup>>

CallNewRegionHardcoded ==
  /\ pc = "unconstructed"
  /\ \E x \in GridSizes, y \in GridSizes \ {-1}, cpc \in {1, 2}, t \in Thresholds :
       LET r == newRegionHardcoded(x, y, 0, cpc, t, 2)
       IN  Returns(r, [i \in ColIds(r) |-> 0])

CallNewRegion ==
  /\ pc = "unconstructed"
  /\ \E x \in GridSizes, y \in GridSizes \ {-1}, cpc \in {1, 2}, t \in Thresholds :
       LET r == newRegion(2, 1, x, y, 0, cpc, t, 2)
       IN  Returns(r, [i \in 0..1 |-> 0])

NextConstruct == CallNewRegionHardcoded \/ CallNewRegion

SpecConstruct == InitConstruct /\ [][NextConstruct]_vars

(***************************************************************************)
(* C27.  A construction with a grid dimension that is not positive or a    *)
(* segment-activation threshold <= 0 ends in an error and leaves no region *)
(* state: a region that exists has positive dimensions and a positive      *)
(* threshold.                                                              *)
(***************************************************************************)
C27_InvalidConstructionFails ==
  pc = "idle" =>
    region.width > 0 /\ region.height > 0 /\ region.segActiveThreshold > 0

(***************************************************************************)
(* C28.  nextSegmentTimeStep copies the segment's isActive and both        *)
(* current counts into wasActive and the previous counts and each          *)
(* synapse's isConnected into wasConnected, then clears the current values *)
(* (isActive false, both current counts 0, every isConnected false); it    *)
(* changes no permanence, no synapse source, and neither the threshold nor *)
(* predictionSteps.  Stated of the call on the free-standing segment in    *)
(* whatever state the harness has brought it to.                           *)
(***************************************************************************)
C28_NextTimeStepCopiesAndClears ==
  LET next == nextSegmentTimeStep(seg)
  IN  /\ next.wasActive = seg.isActive
      /\ next.numPrevActiveConnectedSyns = seg.numActiveConnectedSyns
      /\ next.numPrevActiveAllSyns = seg.numActiveAllSyns
      /\ ~next.isActive
      /\ next.numActiveConnectedSyns = 0
      /\ next.numActiveAllSyns = 0
      /\ Len(next.synapses) = Len(seg.synapses)
      /\ \A k \in 1..Len(seg.synapses) :
           /\ next.synapses[k].wasConnected = seg.synapses[k].isConnected
           /\ ~next.synapses[k].isConnected
           /\ next.synapses[k].permanence = seg.synapses[k].permanence
           /\ next.synapses[k].inputSource = seg.synapses[k].inputSource
      /\ next.segActiveThreshold = seg.segActiveThreshold
      /\ next.predictionSteps = seg.predictionSteps
      /\ next.isSequence = seg.isSequence

(***************************************************************************)
(* A caller that switches temporal learning off at some point between two  *)
(* runOnce calls (a plain assignment of region->temporalLearning = false,  *)
(* as testRegionSpatialPooling1 makes after construction).                 *)
(***************************************************************************)
SwitchLearningOff ==
  /\ pc = "idle"
  /\ region.temporalLearning
  /\ region' = [region EXCEPT !.temporalLearning = FALSE]
  /\ UNCHANGED <<colActive, columns, cells, inputData, pc, idx, history, feed, syn, seg, calls, pending, sequential, sample, lookup>>

InitOff ==
  /\ Constructed(RepeatRegion)
  /\ feed = After(RepeatPrefix, RepeatInputs, Len(RepeatPrefix) + MaxStepsOff)
  /\ HarnessIdle

NextOff == Next \/ SwitchLearningOff

SpecOff == InitOff /\ [][NextOff]_vars

\* What learning writes of a segment: its prediction steps and, of each
\* synapse, the source and the permanence.
Learned(sg) ==
  [predictionSteps |-> sg.predictionSteps, isSequence |-> sg.isSequence,
   segActiveThreshold |-> sg.segActiveThreshold,
   synapses |-> [n \in 1..Len(sg.synapses) |->
                   <<sg.synapses[n].inputSource, sg.synapses[n].permanence>>]]

(***************************************************************************)
(* C29.  While temporalLearning is off, no step of any runOnce changes a   *)
(* segment (their number, prediction steps), a synapse or a permanence,    *)
(* touches a queue of SegmentUpdateInfos or sets a cell's isLearning.      *)
(***************************************************************************)
C29_LearningOffFreezes ==
  [][~region.temporalLearning =>
       \A ref \in AllCells :
         LET old == cells[ref[1]][ref[2]]
             new == cells'[ref[1]][ref[2]]
         IN  /\ Len(new.segments) = Len(old.segments)
             /\ \A k \in 1..Len(old.segments) :
                  Learned(new.segments[k]) = Learned(old.segments[k])
             /\ new.segmentUpdates = old.segmentUpdates
             /\ new.isLearning => old.isLearning]_vars

\* runOnce has returned with learning off: a column is active without a
\* learning cell, a cell that was predicted and no longer is holds a queue
\* of updates that was not applied, and a cell is predicting.
C29_Witness ==
  /\ pc = "idle" /\ ~region.temporalLearning
  /\ \E i \in ColIds(region) :
       colActive[i] /\ \A c \in CellIds(region) : ~cells[i][c].isLearning
  /\ \E ref \in AllCells :
       LET cell == cells[ref[1]][ref[2]]
       IN  /\ cell.wasPredicted /\ ~cell.isPredicting
           /\ cell.segmentUpdates # << >>
  /\ \E ref \in AllCells : cells[ref[1]][ref[2]].isPredicting

(***************************************************************************)
(* The object-oriented variant, Cell::getPreviousActiveSegment, on the     *)
(* same cell state: Segment::wasActive compares the previous connected-    *)
(* active count with >= against the threshold, the sequence segments among *)
(* the active ones take priority when there are any, and the first segment *)
(* with the most previously active synapses is returned.  The result is    *)
(* the index of the segment, -1 for NULL.                                  *)
(***************************************************************************)
Segment_wasActive(sg) == sg.numPrevActiveConnectedSyns >= sg.segActiveThreshold

Cell_getPreviousActiveSegment(cell) ==
  LET activeSegs == {k \in 1..Len(cell.segments) : Segment_wasActive(cell.segments[k])}
      sequenceSegs == {k \in activeSegs : cell.segments[k].isSequence}
      candidates == IF sequenceSegs # {} THEN sequenceSegs ELSE activeSegs
      mostActiveSyns(k) == cell.segments[k].numPrevActiveConnectedSyns
      bestSegment ==
        CHOOSE k \in candidates :
          \A j \in candidates :
            \/ mostActiveSyns(j) < mostActiveSyns(k)
            \/ mostActiveSyns(j) = mostActiveSyns(k) /\ k <= j
  IN  IF activeSegs = {} THEN -1 ELSE bestSegment - 1

(***************************************************************************)
(* C30.  On every cell state a run reaches, the C getPreviousActiveSegment *)
(* and the C++ Cell::getPreviousActiveSegment select the same segment, or  *)
(* both select none.                                                       *)
(***************************************************************************)
C30_VariantsAgreeOnPreviousActiveSegment ==
  \A ref \in AllCells :
    getPreviousActiveSegment(SrcCell(cells, ref))
      = Cell_getPreviousActiveSegment(SrcCell(cells, ref))

(***************************************************************************)
(* C31.  For every distal segment of every reachable state,                *)
(* wasSegmentActiveFromLearning is true exactly when the number of its     *)
(* synapses whose source cell was active and was learning in the previous  *)
(* step, and which were connected in the previous step (wasConnected), is  *)
(* at least segActiveThreshold.                                            *)
(***************************************************************************)
LearningSources(sg) ==
  {n \in 1..Len(sg.synapses) :
     LET src == cells[sg.synapses[n].inputSource[1]][sg.synapses[n].inputSource[2]]
     IN  src.wasActive /\ src.wasLearning /\ sg.synapses[n].wasConnected}

C33_PositiveReinforcementAmounts ==
  [][(pc = "idle" /\ pc' = "appliedPositive") =>
       LET old == cells[0][0]
           new == cells'[0][0]
           info == old.segmentUpdates[1]
       IN  info.segmentID >= 0 =>
             \A j \in 1..Len(old.segments[info.segmentID + 1].synapses) :
               new.segments[info.segmentID + 1].synapses[j].permanence
                 = IF <<info.segmentID + 1, j>> \in Snapshotted(info)
                     THEN Min(MAX_PERM,
                              old.segments[info.segmentID + 1].synapses[j].permanence
                                + PERMANENCE_INC)
                     ELSE Max(0,
                              old.segments[info.segmentID + 1].synapses[j].permanence
                                - PERMANENCE_DEC)]_vars

(***************************************************************************)
(* C34.  In every reachable state every distal segment has predictionSteps *)
(* in 1..MAX_TIME_STEPS, and it is a sequence segment exactly when its     *)
(* predictionSteps is 1.                                                   *)
(***************************************************************************)
C34_PredictionStepsInRange ==
  \A ref \in AllCells :
    \A k \in 1..Len(cells[ref[1]][ref[2]].segments) :
      LET sg == cells[ref[1]][ref[2]].segments[k]
      IN  /\ sg.predictionSteps \in 1..MAX_TIME_STEPS
          /\ sg.isSequence <=> (sg.predictionSteps = 1)

\* Both ends of the range exist at once: a sequence segment and a segment
\* that predicts MAX_TIME_STEPS steps ahead.
C34_Witness ==
  /\ \E ref \in AllCells :
       \E k \in 1..Len(cells[ref[1]][ref[2]].segments) :
         LET sg == cells[ref[1]][ref[2]].segments[k]
         IN  sg.predictionSteps = 1 /\ sg.isSequence
  /\ \E ref \in AllCells :
       \E k \in 1..Len(cells[ref[1]][ref[2]].segments) :
         LET sg == cells[ref[1]][ref[2]].segments[k]
         IN  sg.predictionSteps = MAX_TIME_STEPS /\ ~sg.isSequence

(***************************************************************************)
(* randomSample on its own: a caller hands it any array of n distinct      *)
(* cells (n <= MaxPool) and any m with 0 < m <= n, and every outcome of    *)
(* the rand() draws is a possible return value.                            *)
(***************************************************************************)
SampleRegion == newRegionHardcoded(MaxPool, 1, 0, 1, 1, 2)

\* The arrays of n distinct cells of the region, 1 <= n <= MaxPool.
SamplePools ==
  UNION {{pool \in [1..n -> {<<i, 0>> : i \in ColIds(SampleRegion)}] :
            \A a \in 1..n, b \in 1..n : a # b => pool[a] # pool[b]}
         : n \in 1..MaxPool}

InitRandomSample ==
  /\ Constructed(SampleRegion)
  /\ feed = AnyOf({}, 0)
  /\ HarnessIdle

CallRandomSample ==
  /\ pc = "idle"
  /\ calls < MaxSampleCalls
  /\ \E pool \in SamplePools : \E m \in 1..Len(pool) :
       \E ss \in randomSample(pool, m) :
         sample' = [cells |-> pool, m |-> m, ss |-> ss]
  /\ calls' = calls + 1
  /\ UNCHANGED <<regionVars, syn, seg, lookup>>

NextRandomSample == CallRandomSample

SpecRandomSample == InitRandomSample /\ [][NextRandomSample]_vars

(***************************************************************************)
(* C35.  For every pool of n distinct cells, every m with 0 < m <= n and   *)
(* every outcome of the draws, randomSample returns exactly m cells, no    *)
(* two of them the same, all of them members of the pool.                  *)
(***************************************************************************)
C35_SampleDistinctMembers ==
  sample # NoSample =>
    /\ Len(sample.ss) = sample.m
    /\ \A a \in 1..Len(sample.ss), b \in 1..Len(sample.ss) :
         a # b => sample.ss[a] # sample.ss[b]
    /\ \A a \in 1..Len(sample.ss) :
         \E b \in 1..Len(sample.cells) : sample.ss[a] = sample.cells[b]

\* A call on the largest pool that returned two cells, the first cell of the
\* pool and the last one: the second draw hit the last cell, or hit the
\* first cell again and the cell at the draw's own index was taken instead.
C35_Witness ==
  /\ Len(sample.cells) = MaxPool /\ sample.m = 2
  /\ sample.ss = <<sample.cells[1], sample.cells[MaxPool]>>

(***************************************************************************)
(* Runs of a four-column region with two cells per column in which a       *)
(* column gets a bottom-up predicted cell whose segment was not active     *)
(* from learning cells, so that Phase 1 falls back on getBestMatchingCell  *)
(* in a column that did not burst.                                         *)
(***************************************************************************)
LearnerRegion == newRegionHardcoded(4, 1, 0, 2, 1, 2)
LearnerInputs == {Bits(LearnerRegion, on) : on \in SUBSET ColIds(LearnerRegion)}
LearnerPrefix ==
  <<Bits(LearnerRegion, {1}), Bits(LearnerRegion, {0, 1, 2}),
    Bits(LearnerRegion, {0, 1, 2}), Bits(LearnerRegion, {0, 1, 2}),
    Bits(LearnerRegion, {1}), Bits(LearnerRegion, {0, 1})>>

InitLearner ==
  /\ Constructed(LearnerRegion)
  /\ feed = After(LearnerPrefix, LearnerInputs, Len(LearnerPrefix) + MaxStepsLearner)
  /\ HarnessIdle

SpecLearner == InitLearner /\ [][Next]_vars

(***************************************************************************)
(* C36.  When performTemporalPooling has returned, every cell that is      *)
(* learning is also active.                                                *)
(***************************************************************************)
C36_LearningImpliesActive ==
  pc = "idle" =>
    \A ref \in AllCells :
      cells[ref[1]][ref[2]].isLearning => cells[ref[1]][ref[2]].isActive

\* C36 as amended: a learning cell is in an active column, and it is active
\* unless a cell of its column was activated as bottom-up predicted (the
\* column did not burst).
C36_LearningInActiveColumn ==
  pc = "idle" =>
    \A ref \in AllCells :
      cells[ref[1]][ref[2]].isLearning =>
        /\ colActive[ref[1]]
        /\ \/ cells[ref[1]][ref[2]].isActive
           \/ \E c \in CellIds(region) :
                cells[ref[1]][c].isActive /\ cells[ref[1]][c].wasPredicted

\* Both cases at once: a learning cell that is not active next to an active
\* predicted cell of its column, and a learning cell that is active.
C36_Witness ==
  /\ pc = "idle"
  /\ \E ref \in AllCells :
       /\ cells[ref[1]][ref[2]].isLearning /\ ~cells[ref[1]][ref[2]].isActive
       /\ \E c \in CellIds(region) :
            cells[ref[1]][c].isActive /\ cells[ref[1]][c].wasPredicted
  /\ \E ref \in AllCells :
       cells[ref[1]][ref[2]].isLearning /\ cells[ref[1]][ref[2]].isActive

(***************************************************************************)
(* C37.  When the performTemporalPooling of a runOnce has returned, no     *)
(* cell of an inactive column is active or learning, and every active      *)
(* column has at least one active cell.                                    *)
(***************************************************************************)
C37_ActivityFollowsColumns ==
  (pc = "idle" /\ history # << >>) =>
    \A i \in ColIds(region) :
      IF colActive[i]
        THEN \E c \in CellIds(region) : cells[i][c].isActive
        ELSE \A c \in CellIds(region) :
               ~cells[i][c].isActive /\ ~cells[i][c].isLearning

\* An inactive column whose cells were active and learning in the step
\* before, next to an active column that did not burst: one cell of it is
\* active and another is not.
C37_Witness ==
  /\ pc = "idle" /\ history # << >>
  /\ \E i \in ColIds(region) :
       /\ ~colActive[i]
       /\ \E c \in CellIds(region) : cells[i][c].wasActive /\ cells[i][c].wasLearning
  /\ \E i \in ColIds(region) :
       /\ colActive[i]
       /\ \E c \in CellIds(region) : cells[i][c].isActive
       /\ \E c \in CellIds(region) : ~cells[i][c].isActive

(***************************************************************************)
(* C38.  Every SegmentUpdateInfo built for an existing segment holds as    *)
(* many snapshotted synapse indices as the cached count that sized the     *)
(* buffer (numActiveConnectedSyns or numPrevActiveConnectedSyns, stored as *)
(* numActiveSyns): the snapshot loop neither overruns the buffer nor       *)
(* leaves the 'mismatch' diagnostic to print.                              *)
(***************************************************************************)
C38_SnapshotMatchesCachedCount ==
  \A ref \in AllCells :
    \A u \in 1..Len(cells[ref[1]][ref[2]].segmentUpdates) :
      LET info == cells[ref[1]][ref[2]].segmentUpdates[u]
      IN  info.segmentID >= 0 =>
            Len(info.activeSynapseIDs) = info.numActiveSyns

\* Both kinds of snapshot are pending at once, each with a synapse in it:
\* one of the current step (the reinforcement of an active segment, which
\* adds no synapses) and one of the previous step (an update that may add
\* synapses).
C38_Witness ==
  /\ \E ref \in AllCells :
       \E u \in 1..Len(cells[ref[1]][ref[2]].segmentUpdates) :
         LET info == cells[ref[1]][ref[2]].segmentUpdates[u]
         IN  info.segmentID >= 0 /\ ~info.addNewSynapses /\ info.numActiveSyns > 0
  /\ \E ref \in AllCells :
       \E u \in 1..Len(cells[ref[1]][ref[2]].segmentUpdates) :
         LET info == cells[ref[1]][ref[2]].segmentUpdates[u]
         IN  info.segmentID >= 0 /\ info.addNewSynapses /\ info.numActiveSyns > 0

(***************************************************************************)
(* C39.  A step that gives a cell a new distal segment gives it a segment  *)
(* of at least 1 and at most newSynapseCount synapses: an update whose     *)
(* sampled learning-cell set is empty creates nothing, and so no cell ever *)
(* holds an empty segment.                                                 *)
(***************************************************************************)
C39_NewSegmentSynapseCount ==
  [][\A ref \in AllCells :
       LET old == cells[ref[1]][ref[2]]
           new == cells'[ref[1]][ref[2]]
       IN  /\ \A k \in (Len(old.segments) + 1)..Len(new.segments) :
                /\ Len(new.segments[k].synapses) >= 1
                /\ Len(new.segments[k].synapses) <= region.newSynapseCount
           /\ \A k \in 1..Len(new.segments) :
                Len(new.segments[k].synapses) >= 1]_vars

\* Segments have been created with a single synapse and with as many as
\* newSynapseCount allows, and an update that would create a segment but
\* sampled no learning cell has been applied without creating one.
C39_Witness ==
  /\ region.newSynapseCount >= 2
  /\ \E ref \in AllCells : \E k \in 1..Len(cells[ref[1]][ref[2]].segments) :
       Len(cells[ref[1]][ref[2]].segments[k].synapses) = 1
  /\ \E ref \in AllCells : \E k \in 1..Len(cells[ref[1]][ref[2]].segments) :
       Len(cells[ref[1]][ref[2]].segments[k].synapses) = region.newSynapseCount
  /\ \E ref \in AllCells :
       /\ cells[ref[1]][ref[2]].isLearning
       /\ cells[ref[1]][ref[2]].segments = << >>
       /\ cells[ref[1]][ref[2]].segmentUpdates = << >>

(***************************************************************************)
(* Lookups of a column by grid position.  The regions are grids of up to   *)
(* MaxGrid x MaxGrid columns; each step of these runs is one evaluation of *)
(* a columns[...] subscript at one of its three sites, recorded with the   *)
(* position asked for, the index computed and the column addressed.        *)
(***************************************************************************)
GridRegions ==
  {newRegionHardcoded(w, h, 0, 1, 1, 1) : w \in 1..MaxGrid, h \in 1..MaxGrid}

GridPositions(r) == {<<x, y>> : x \in 0..(r.width - 1), y \in 0..(r.height - 1)}

\* The subscript of newRegionHardcoded and of initSegmentUpdateInfo.
ColumnIndex(r, x, y) == (y * r.width) + x

\* The subscript of performBoosting.
BoostingIndex(r, x, y) == (y * r.height) + x

\* (cx,cy) of region->columns[i] as the construction loop leaves them.
ColumnCoords(r) ==
  [i \in ColIds(r) |-> CHOOSE p \in GridPositions(r) : ColumnIndex(r, p[1], p[2]) = i]

\* The positions the neighbor loops of performBoosting visit around the
\* column at (cx,cy) with rounded inhibition radius irad.
BoostingNeighbors(r, cx, cy, irad) ==
  LET x0 == Max(0, Min(cx - 1, cx - irad))
      y0 == Max(0, Min(cy - 1, cy - irad))
      x1 == Min(r.width, Min(r.width, Max(cx + 1, cx + irad)) + 1)
      y1 == Min(r.height, Min(r.height, Max(cy + 1, cy + irad)) + 1)
  IN  {<<x, y>> : x \in x0..(x1 - 1), y \in y0..(y1 - 1)}

\* What columns[index] addresses: the column constructed there, or, past
\* the end of the array, whatever the memory holds (any column's fields or
\* none).
Addressed(r, index) ==
  IF index \in ColIds(r) THEN {ColumnCoords(r)[index]}
                         ELSE GridPositions(r) \cup {<<-1, -1>>}

InitGrid ==
  /\ \E r \in GridRegions : Constructed(r)
  /\ feed = AnyOf({}, 0)
  /\ HarnessIdle

\* The subscript in the construction loop of newRegionHardcoded.
LookupConstruction ==
  /\ pc = "idle"
  /\ calls < MaxLookups
  /\ \E p \in GridPositions(region) :
       LET index == ColumnIndex(region, p[1], p[2])
       IN  \E at \in Addressed(region, index) :
             lookup' = [site |-> "newRegionHardcoded", x |-> p[1], y |-> p[2],
                        index |-> index, at |-> at]
  /\ calls' = calls + 1
  /\ UNCHANGED <<regionVars, syn, seg, sample>>

\* The subscript in the candidate scan of initSegmentUpdateInfo.
LookupCandidateScan ==
  /\ pc = "idle"
  /\ calls < MaxLookups
  /\ \E p \in GridPositions(region) :
       LET index == ColumnIndex(region, p[1], p[2])
       IN  \E at \in Addressed(region, index) :
             lookup' = [site |-> "initSegmentUpdateInfo", x |-> p[1], y |-> p[2],
                        index |-> index, at |-> at]
  /\ calls' = calls + 1
  /\ UNCHANGED <<regionVars, syn, seg, sample>>

\* The subscript in the neighbor scan of performBoosting, called on any
\* column of the region.
LookupBoostingNeighbor ==
  /\ pc = "idle"
  /\ calls < MaxLookups
  /\ \E i \in ColIds(region) : \E irad \in 0..MaxRadius :
       \E p \in BoostingNeighbors(region, ColumnCoords(region)[i][1],
                                  ColumnCoords(region)[i][2], irad) :
         LET index == BoostingIndex(region, p[1], p[2])
         IN  \E at \in Addressed(region, index) :
               lookup' = [site |-> "performBoosting", x |-> p[1], y |-> p[2],
                          index |-> index, at |-> at]
  /\ calls' = calls + 1
  /\ UNCHANGED <<regionVars, syn, seg, sample>>

NextGrid == LookupConstruction \/ LookupCandidateScan \/ LookupBoostingNeighbor

SpecGrid == InitGrid /\ [][NextGrid]_vars

(***************************************************************************)
(* C40.  Every lookup of a column by a grid position (x,y) inside the grid *)
(* computes an index inside the column array and addresses the column      *)
(* whose (cx,cy) is (x,y), whatever the width and height: in the region's  *)
(* construction, in the candidate scan and in the neighbor scan of         *)
(* performBoosting.                                                        *)
(***************************************************************************)
C40_LookupAddressesPosition ==
  lookup # NoLookup =>
    /\ <<lookup.x, lookup.y>> \in GridPositions(region)
    /\ lookup.index \in ColIds(region)
    /\ lookup.at = <<lookup.x, lookup.y>>

====
